---- MODULE Spec2Model ----
(***************************************************************************)
(* Scenario evaluation and optimisation pipeline of mms-promo-intelligence *)
(* (backend/engines, backend/tools, backend/api/routes/optimization.py).   *)
(*                                                                         *)
(* Python floats are modelled as exact rationals <<n, d>> in lowest terms  *)
(* with d > 0; dates are day ordinals, the weekday of day t being t % 7.   *)
(***************************************************************************)
EXTENDS Integers, Sequences, FiniteSets, TLC

VARIABLES
    cached_model,   \* UpliftElasticityEngine._cached_model: "None" or a model reference
    last,           \* the last completed call, [op, args, result], or the call about
                    \* to be made, [op |-> "pending", args]
    probe,          \* an earlier evaluate_scenario call kept for comparison:
                    \* [set, args, result, other_model]
    calls           \* evaluate_scenario calls in progress on the shared engine, per thread

vars == <<cached_model, last, probe, calls>>

----------------------------------------------------------------------------
(* Float arithmetic, as exact rationals.                                   *)

\* F applied to v, and to v and w: a local name for a value, as an assignment
\* to a local variable gives
Let(v, F(_)) == F(v)

Let2(v, w, F(_, _)) == F(v, w)

\* F applied to v, v being computed before F is entered: the value carried from
\* one execution of a loop body to the next
Bind(v, F(_)) == CHOOSE r \in {F(x) : x \in {v}} : TRUE

Abs(x) == IF x < 0 THEN -x ELSE x

RECURSIVE GCD(_, _)
GCD(a, b) == IF b = 0 THEN a ELSE GCD(b, a % b)

Norm(n, d) ==
    Let(GCD(Abs(n), d), LAMBDA g : <<n \div g, d \div g>>)

Rat(n, d) == Norm(n, d)

RZero == <<0, 1>>
ROne == <<1, 1>>

RMul(x, y) ==
    Let2(x, y, LAMBDA a, b :
        Let2(GCD(Abs(a[1]), b[2]), GCD(Abs(b[1]), a[2]), LAMBDA g1, g2 :
            <<(a[1] \div g1) * (b[1] \div g2), (a[2] \div g2) * (b[2] \div g1)>>))

RAdd(x, y) ==
    Let2(x, y, LAMBDA a, b :
        Let((a[2] \div GCD(a[2], b[2])) * b[2], LAMBDA l :
            Let2(a[1] * (l \div a[2]) + b[1] * (l \div b[2]), l, Norm)))

RNeg(a) == Let(a, LAMBDA v : <<-v[1], v[2]>>)

RSub(a, b) == RAdd(a, RNeg(b))

\* a / b for b # 0
RDiv(x, y) ==
    Let(y, LAMBDA b :
        IF b[1] > 0 THEN RMul(x, <<b[2], b[1]>>) ELSE RMul(x, <<-b[2], -b[1]>>))

RLe(x, y) ==
    Let2(x, y, LAMBDA a, b :
        Let(GCD(a[2], b[2]), LAMBDA g : a[1] * (b[2] \div g) <= b[1] * (a[2] \div g)))

RLt(a, b) == ~RLe(b, a)

\* Python's max(a, b): b only when it is greater than a
RMax(x, y) == Let2(x, y, LAMBDA a, b : IF RLt(a, b) THEN b ELSE a)

\* Python's min(a, b): b only when it is less than a
RMin(x, y) == Let2(x, y, LAMBDA a, b : IF RLt(b, a) THEN b ELSE a)

----------------------------------------------------------------------------
(* str.upper() and str.lower() on the names the model uses.                *)

Upper(s) ==
    CASE s \in {"TV", "tv", "Tv"} -> "TV"
      [] s \in {"AUDIO", "audio", "Audio"} -> "AUDIO"
      [] s \in {"GAMING", "gaming", "Gaming"} -> "GAMING"
      [] s \in {"ONLINE", "online", "Online"} -> "ONLINE"
      [] s \in {"STORE", "store", "Store"} -> "STORE"
      [] OTHER -> s

\* the channel key taken as written, without str.lower()
Lower_asis(s) == s

Lower(s) ==
    CASE s \in {"TV", "tv", "Tv"} -> "tv"
      [] s \in {"AUDIO", "audio", "Audio"} -> "audio"
      [] s \in {"GAMING", "gaming", "Gaming"} -> "gaming"
      [] s \in {"ONLINE", "online", "Online"} -> "online"
      [] s \in {"STORE", "store", "Store"} -> "store"
      [] OTHER -> s

----------------------------------------------------------------------------
(* UpliftModel objects.  A model is held by reference; Coefficients gives  *)
(* the nested category -> channel -> coefficient table of each object.     *)

DefaultElasticity == Rat(3, 2)

\* build_uplift_model without a sales data tool: the default table
DefaultCoefficients ==
    [c \in {"TV", "GAMING", "AUDIO"} |->
        [ch \in {"online", "store"} |-> DefaultElasticity]]

ModelIds == {"mLow", "mHigh", "mNeg", "built"}

Coefficients(m) ==
    CASE m = "mLow"  -> [TV |-> [online |-> Rat(1, 2), store |-> Rat(1, 2)]]
      [] m = "mHigh" -> [TV |-> [online |-> Rat(3, 1)], AUDIO |-> [online |-> Rat(2, 1)]]
      [] m = "mNeg"  -> [TV |-> [online |-> Rat(-1, 1)]]
      [] m = "built" -> DefaultCoefficients

\* estimate_uplift, lines 63-65: get or build the cached model
EnsureModel(cached) == IF cached = "None" THEN "built" ELSE cached

\* coefficients.get(category_key, {}).get(channel_key, 1.5)
BaseCoefficient(m, category_key, channel_key) ==
    Let(Coefficients(m), LAMBDA coefficients :
    IF category_key \in DOMAIN coefficients
    THEN IF channel_key \in DOMAIN coefficients[category_key]
         THEN coefficients[category_key][channel_key]
         ELSE DefaultElasticity
    ELSE DefaultElasticity)

----------------------------------------------------------------------------
(* PromoContext.  weather.kind: "none" (None or {}), "nokey" (a dict       *)
(* without impact_factor), "factor" (a dict with impact_factor); events is *)
(* the length of the event list.                                           *)

NoContext == [is_none |-> TRUE, weather |-> [kind |-> "none", impact_factor |-> ROne], events |-> 0]

Ctx(kind, f, n) ==
    [is_none |-> FALSE, weather |-> [kind |-> kind, impact_factor |-> f], events |-> n]

\* the band adjustment with the band limits included in the bands
BandFactor_inclusive(discount) ==
    IF RLe(Rat(3, 10), discount) THEN Rat(8, 10)
    ELSE IF RLe(Rat(2, 10), discount) THEN Rat(9, 10)
    ELSE ROne

\* the band adjustment with 'if' in place of 'elif': above 0.3 both factors apply
BandFactor_both(discount) ==
    RMul(IF RLt(Rat(3, 10), discount) THEN Rat(8, 10) ELSE ROne,
         IF RLt(Rat(2, 10), discount) THEN Rat(9, 10) ELSE ROne)

\* the discount band adjustment, lines 79-83
BandFactor(discount) ==
    IF RLt(Rat(3, 10), discount) THEN Rat(8, 10)
    ELSE IF RLt(Rat(2, 10), discount) THEN Rat(9, 10)
    ELSE ROne

\* the context adjustment, lines 85-95
ContextAdjust(uplift, context) ==
    IF context.is_none THEN uplift
    ELSE
        Let(IF context.weather.kind = "none" THEN uplift
            ELSE IF context.weather.kind = "factor"
                 THEN RMul(uplift, context.weather.impact_factor)
                 ELSE RMul(uplift, ROne),
            LAMBDA w :
                IF context.events > 0
                THEN RMul(w, RAdd(ROne, RMin(Rat(context.events * 5, 100), Rat(2, 10))))
                ELSE w)

\* line 77 with returns that grow with the discount
UnbandedUplift_convex(discount, base_coefficient) ==
    RMul(RMul(discount, base_coefficient), RAdd(ROne, RMul(discount, Rat(3, 10))))

\* line 77: the uplift before the band and context adjustments
UnbandedUplift(discount, base_coefficient) ==
    RMul(RMul(discount, base_coefficient), RSub(ROne, RMul(discount, Rat(3, 10))))

\* the value before the final floor, lines 67-95
RawUplift(cached, category, channel, discount, context) ==
    Let(BaseCoefficient(EnsureModel(cached), Upper(category), Lower(channel)),
        LAMBDA base_coefficient :
    Let(UnbandedUplift(discount, base_coefficient),
        LAMBDA uplift :
        ContextAdjust(RMul(uplift, BandFactor(discount)), context)))

\* line 97 without the floor
estimate_uplift_nofloor(cached, category, channel, discount, context) ==
    RawUplift(cached, category, channel, discount, context)

\* UpliftElasticityEngine.estimate_uplift: the returned value
estimate_uplift(cached, category, channel, discount, context) ==
    RMax(RZero, RawUplift(cached, category, channel, discount, context))

----------------------------------------------------------------------------
(* ScenarioEvaluationEngine.evaluate_scenario.                             *)

ZeroProjection == [sales |-> RZero, margin |-> RZero, units |-> RZero]

ZeroBreakdown == [sales |-> RZero, margin |-> RZero, units |-> RZero, ebit |-> RZero]

EmptyDict == [x \in {} |-> ZeroBreakdown]

\* the accumulators of lines 73-78
Acc0 ==
    [total_sales |-> RZero, total_margin |-> RZero, total_units |-> RZero,
     breakdown_by_channel |-> EmptyDict, breakdown_by_department |-> EmptyDict]

\* line 70: the shared engine's cached reference after the assignment
CacheAfterBegin(cached, uplift_model) == uplift_model

\* the number of executions of the innermost loop body, lines 85-134
NumIterations(scenario) ==
    IF scenario.date_range.start_date > scenario.date_range.end_date THEN 0
    ELSE (scenario.date_range.end_date - scenario.date_range.start_date + 1)
            * Len(scenario.departments) * Len(scenario.channels)

\* the k-th execution (k >= 0) of the loop body: its date, department and channel
IterDate(scenario, k) ==
    scenario.date_range.start_date
        + (k \div (Len(scenario.departments) * Len(scenario.channels)))

IterDept(scenario, k) ==
    scenario.departments[((k \div Len(scenario.channels)) % Len(scenario.departments)) + 1]

IterChannel(scenario, k) ==
    scenario.channels[(k % Len(scenario.channels)) + 1]

\* baseline.daily_projections.get(current_date, zeros), lines 87-91
DayBaseline(baseline, current_date) ==
    IF current_date \in DOMAIN baseline.daily_projections
    THEN baseline.daily_projections[current_date]
    ELSE ZeroProjection

\* lines 121-131 with the entry set to zeros on every execution, not only when
\* the key is new
UpdateBreakdown_reset(bd, key, day_sales, day_margin, day_units) ==
    (key :> [sales |-> day_sales, margin |-> day_margin, units |-> day_units,
             ebit |-> RZero]) @@ bd

\* lines 121-131: one breakdown dict after adding the day's values under key
UpdateBreakdown(bd, key, day_sales, day_margin, day_units) ==
    Let(IF key \in DOMAIN bd THEN bd[key] ELSE ZeroBreakdown, LAMBDA cur :
        (key :> [sales  |-> RAdd(cur.sales, day_sales),
                 margin |-> RAdd(cur.margin, day_margin),
                 units  |-> RAdd(cur.units, day_units),
                 ebit   |-> cur.ebit]) @@ bd)

\* lines 110-112 without the floor at 0
DayMarginPct_nofloor(day_baseline, discount) ==
    RSub(IF RLt(RZero, day_baseline.sales)
         THEN RDiv(day_baseline.margin, day_baseline.sales)
         ELSE Rat(2, 10),
         discount)

\* lines 110-112: the day's margin ratio after the discount
DayMarginPct(day_baseline, discount) ==
    RMax(RZero,
         RSub(IF RLt(RZero, day_baseline.sales)
              THEN RDiv(day_baseline.margin, day_baseline.sales)
              ELSE Rat(2, 10),
              discount))

\* lines 94-131: the k-th execution of the loop body; cached is the value of
\* the engine's cached reference when estimate_uplift reads it
EvalIter(acc, scenario, baseline, context, cached, k) ==
    Let2(IterDept(scenario, k), IterChannel(scenario, k), LAMBDA dept, channel :
    Let2(DayBaseline(baseline, IterDate(scenario, k)), Rat(scenario.discount_percentage, 100),
         LAMBDA day_baseline, discount :
    Let(estimate_uplift(cached, dept, channel, discount, context), LAMBDA uplift_pct :
    Let2(Rat(1, Len(scenario.departments)), Rat(1, Len(scenario.channels)),
         LAMBDA dept_factor, channel_factor :
    Let2(RMul(RMul(RMul(day_baseline.sales, dept_factor), channel_factor),
              RAdd(ROne, uplift_pct)),
         DayMarginPct(day_baseline, discount),
         LAMBDA day_sales, day_margin_pct :
    Let2(RMul(day_sales, day_margin_pct),
         RMul(RMul(RMul(day_baseline.units, dept_factor), channel_factor),
              RAdd(ROne, RMul(uplift_pct, Rat(8, 10)))),
         LAMBDA day_margin, day_units :
        [total_sales  |-> RAdd(acc.total_sales, day_sales),
         total_margin |-> RAdd(acc.total_margin, day_margin),
         total_units  |-> RAdd(acc.total_units, day_units),
         breakdown_by_channel |->
             UpdateBreakdown(acc.breakdown_by_channel, channel, day_sales, day_margin, day_units),
         breakdown_by_department |->
             UpdateBreakdown(acc.breakdown_by_department, dept, day_sales, day_margin, day_units)]
    ))))))

\* lines 141-146: the ebit of every breakdown entry
WithEbit(bd) ==
    [key \in DOMAIN bd |->
        [bd[key] EXCEPT !.ebit = RSub(bd[key].margin, RMul(bd[key].sales, Rat(1, 10)))]]

\* lines 148-155
ComparisonVsBaseline(acc, baseline) ==
    [sales_delta  |-> RSub(acc.total_sales, baseline.total_sales),
     margin_delta |-> RSub(acc.total_margin, baseline.total_margin),
     units_delta  |-> RSub(acc.total_units, baseline.total_units),
     sales_pct_change |->
        IF RLt(RZero, baseline.total_sales)
        THEN RMul(RDiv(RSub(acc.total_sales, baseline.total_sales), baseline.total_sales),
                  Rat(100, 1))
        ELSE RZero,
     margin_pct_change |->
        IF RLt(RZero, baseline.total_margin)
        THEN RMul(RDiv(RSub(acc.total_margin, baseline.total_margin), baseline.total_margin),
                  Rat(100, 1))
        ELSE RZero]

\* lines 136-174: the ScenarioKPI built from the accumulators
FinishKPI(acc, scenario, baseline) ==
    [kind |-> "ScenarioKPI",
     scenario_id |-> scenario.id,
     total_sales |-> acc.total_sales,
     total_margin |-> acc.total_margin,
     total_ebit |-> RSub(acc.total_margin, RMul(acc.total_sales, Rat(1, 10))),
     total_units |-> acc.total_units,
     breakdown_by_channel |-> WithEbit(acc.breakdown_by_channel),
     breakdown_by_department |-> WithEbit(acc.breakdown_by_department),
     comparison_vs_baseline |-> ComparisonVsBaseline(acc, baseline)]

\* the loop of lines 85-134 run from its k-th execution to the end with no other
\* call in between: every estimate_uplift reads the same cached reference
RECURSIVE EvalLoop(_, _, _, _, _, _)
EvalLoop(acc, scenario, baseline, context, cached, k) ==
    IF k >= NumIterations(scenario) THEN acc
    ELSE Bind(EvalIter(acc, scenario, baseline, context, cached, k),
              LAMBDA a : EvalLoop(a, scenario, baseline, context, cached, k + 1))

\* line 70 placed after the loop: the loop reads the reference left by the previous call
evaluate_scenario_stale(cached, scenario, baseline, uplift_model, context) ==
    FinishKPI(EvalLoop(Acc0, scenario, baseline, context, cached, 0), scenario, baseline)

\* evaluate_scenario as one uninterrupted call on an engine whose cached
\* reference is cached when the call starts
evaluate_scenario(cached, scenario, baseline, uplift_model, context) ==
    FinishKPI(EvalLoop(Acc0, scenario, baseline, context,
                       CacheAfterBegin(cached, uplift_model), 0),
              scenario, baseline)

\* the engine's cached reference when such a call returns
CacheAfterEvaluate(cached, scenario, uplift_model) ==
    IF NumIterations(scenario) > 0
    THEN EnsureModel(CacheAfterBegin(cached, uplift_model))
    ELSE CacheAfterBegin(cached, uplift_model)

----------------------------------------------------------------------------
(* Inputs of the evaluation calls.                                         *)

\* the last day of the baselines and scenarios considered
MaxDay == 1

Proj(s, m, u) == [sales |-> Rat(s, 1), margin |-> Rat(m, 1), units |-> Rat(u, 1)]

RECURSIVE SumField(_, _, _)
SumField(f, S, field) ==
    IF S = {} THEN RZero
    ELSE Let(CHOOSE y \in S : \A z \in S : y <= z,
             LAMBDA x : RAdd(f[x][field], SumField(f, S \ {x}, field)))

MkBaseline(proj) ==
    [kind |-> "BaselineForecast",
     date_range |-> [start_date |-> 0, end_date |-> MaxDay],
     daily_projections |-> proj,
     total_sales |-> SumField(proj, DOMAIN proj, "sales"),
     total_margin |-> SumField(proj, DOMAIN proj, "margin"),
     total_units |-> SumField(proj, DOMAIN proj, "units"),
     gap_vs_target |-> [is_none |-> TRUE]]

EvalBaselines ==
    {MkBaseline([d \in 0..MaxDay |-> Proj(10 + d, 3, 4)]),
     MkBaseline([d \in 0..MaxDay |-> IF d = 0 THEN Proj(0, 0, 0) ELSE Proj(8, 1, 2)])}

MkScenario(id, a, b, depts, chans, pct) ==
    [id |-> id, date_range |-> [start_date |-> a, end_date |-> b],
     departments |-> depts, channels |-> chans, discount_percentage |-> pct]

EvalScenarios ==
    {MkScenario("sA", 0, MaxDay, <<"TV">>, <<"online">>, 20),
     MkScenario("sB", 0, MaxDay, <<"tv", "AUDIO">>, <<"Online", "store">>, 35),
     MkScenario("sC", 1, 0, <<"TV">>, <<"online">>, 20),
     MkScenario("sD", 0, MaxDay, << >>, <<"online">>, 20),
     MkScenario("sE", 0, MaxDay, <<"TV">>, << >>, 20),
     MkScenario("sF", 1, MaxDay + 1, <<"TV", "AUDIO">>, <<"online">>, 25)}

EvalModels == {"mLow", "mHigh"}

EvalContexts == {NoContext, Ctx("factor", Rat(1, 2), 1)}

EvalArgs ==
    [scenario : EvalScenarios, baseline : EvalBaselines,
     uplift_model : EvalModels, context : EvalContexts]

EstimateArgs ==
    [category : {"TV", "audio"}, channel : {"online"},
     discount : {Rat(1, 5), Rat(1, 2)}, context : {NoContext}]

CacheValues == {"None"} \cup ModelIds

\* a function with every value computed
Tabulated(t) == IF t = << >> THEN t ELSE t

\* evaluate_scenario tabulated over the engine states and the arguments
EvaluateTable ==
    Tabulated([c \in CacheValues, a \in EvalArgs |->
                evaluate_scenario(c, a.scenario, a.baseline, a.uplift_model, a.context)])

NoCall == [op |-> "none"]

NoProbe == [set |-> FALSE]

----------------------------------------------------------------------------
(* The shared engine used by one caller at a time (the routes are          *)
(* coroutines that never yield while they evaluate).                       *)

Init ==
    /\ cached_model = "None"
    /\ last = NoCall
    /\ probe = NoProbe
    /\ calls = << >>

\* ScenarioEvaluationEngine.evaluate_scenario, a whole call
EvaluateScenarioCall ==
    \E a \in EvalArgs :
        LET kpi == EvaluateTable[cached_model, a]
        IN  /\ last' = [op |-> "evaluate_scenario", args |-> a, result |-> kpi]
            /\ cached_model' = CacheAfterEvaluate(cached_model, a.scenario, a.uplift_model)
            /\ \/ /\ probe.set
                  /\ probe' = [probe EXCEPT !.other_model =
                                    @ \/ a.uplift_model # probe.args.uplift_model]
               \/ /\ ~probe.set
                  /\ probe' \in {probe, [set |-> TRUE, args |-> a, result |-> kpi,
                                          other_model |-> FALSE]}
            /\ UNCHANGED calls

\* UpliftElasticityEngine.estimate_uplift called directly on the shared engine
EstimateUpliftWith(a) ==
    /\ last' = [op |-> "estimate_uplift", args |-> a,
                result |-> estimate_uplift(cached_model, a.category, a.channel,
                                           a.discount, a.context)]
    /\ cached_model' = EnsureModel(cached_model)
    /\ UNCHANGED <<probe, calls>>

EstimateUpliftCall == \E a \in EstimateArgs : EstimateUpliftWith(a)

Next == EvaluateScenarioCall \/ EstimateUpliftCall

Spec == Init /\ [][Next]_vars

\* C1: a call of evaluate_scenario with the arguments of an earlier call returns
\* the ScenarioKPI the earlier call returned, whatever calls were made in between
C1_SameArgsSameKPI ==
    (last.op = "evaluate_scenario" /\ probe.set /\ last.args = probe.args)
        => last.result = probe.result

\* the engine's cached model was replaced by another model between two
\* evaluations with the same arguments, and both returned the same non-zero KPI
C1_Witness ==
    /\ last.op = "evaluate_scenario"
    /\ probe.set
    /\ probe.other_model
    /\ last.args = probe.args
    /\ NumIterations(last.args.scenario) > 0
    /\ last.result.total_sales # RZero
    /\ last.result = probe.result

----------------------------------------------------------------------------
(* estimate_uplift over a grid of discounts, coefficients and contexts, on *)
(* an engine whose cached model is any model an earlier call may have left.*)

\* the longest event list considered
MaxEvents == 5

UpliftDiscounts ==
    {Rat(0, 1), Rat(1, 10), Rat(1, 5), Rat(21, 100), Rat(3, 10), Rat(31, 100),
     Rat(1, 2), Rat(1, 1)}

UpliftContexts ==
    {NoContext, Ctx("none", ROne, 0), Ctx("nokey", ROne, 1),
     Ctx("factor", Rat(-1, 2), 0), Ctx("factor", RZero, 2),
     Ctx("factor", Rat(3, 2), MaxEvents), Ctx("factor", Rat(-2, 1), MaxEvents)}

UpliftArgs ==
    [category : {"TV", "tv", "AUDIO", "Gaming"}, channel : {"online", "Online", "store"},
     discount : UpliftDiscounts, context : UpliftContexts]

Pending(Args) == {[op |-> "pending", args |-> a] : a \in Args}

InitUplift ==
    /\ cached_model \in CacheValues
    /\ last \in Pending(UpliftArgs)
    /\ probe = NoProbe
    /\ calls = << >>

EstimateUplift ==
    /\ last.op = "pending"
    /\ EstimateUpliftWith(last.args)

NextUplift == EstimateUplift

SpecUplift == InitUplift /\ [][NextUplift]_vars

\* C4: estimate_uplift returns a value >= 0 for every discount in [0,1], every
\* coefficient, every weather impact factor and every number of events
C4_UpliftNonNegative ==
    last.op = "estimate_uplift" => RLe(RZero, last.result)

\* a positive discount with a negative weather impact factor and a positive
\* coefficient: the product is negative and the call returns 0
C4_Witness ==
    /\ last.op = "estimate_uplift"
    /\ RLt(RZero, last.args.discount)
    /\ last.args.context.weather.kind = "factor"
    /\ RLt(last.args.context.weather.impact_factor, RZero)
    /\ RLt(estimate_uplift_nofloor(cached_model, last.args.category, last.args.channel,
                                   last.args.discount, last.args.context), RZero)
    /\ last.result = RZero

----------------------------------------------------------------------------
(* evaluate_scenario calls running in threads on the same shared engine.   *)
(* A thread may be preempted between any two statements; the steps below   *)
(* are the assignment of line 70, each execution of the loop body (one     *)
(* estimate_uplift, which reads the engine's cached reference) and the     *)
(* rest of the call.                                                       *)

Threads == {"t1", "t2"}

ConcScenarios == {s \in EvalScenarios : s.id \in {"sA", "sB"}}

ConcArgs ==
    [scenario : ConcScenarios,
     baseline : {MkBaseline([d \in 0..MaxDay |-> Proj(10 + d, 3, 4)])},
     uplift_model : EvalModels, context : {NoContext}]

Idle == [pc |-> "idle"]

InitConc ==
    /\ cached_model = "None"
    /\ last = NoCall
    /\ probe = NoProbe
    /\ calls = [t \in Threads |-> Idle]

\* lines 66-83: the call starts and stores its model in the shared engine
Begin(t) ==
    /\ calls[t].pc = "idle"
    /\ \E a \in ConcArgs :
        calls' = [calls EXCEPT ![t] =
                    [pc |-> "loop", args |-> a, k |-> 0, acc |-> Acc0, reads_own |-> TRUE]]
    /\ cached_model' = CacheAfterBegin(cached_model, calls'[t].args.uplift_model)
    /\ UNCHANGED <<last, probe>>

\* lines 94-131: one execution of the loop body
Step(t) ==
    /\ calls[t].pc = "loop"
    /\ calls[t].k < NumIterations(calls[t].args.scenario)
    /\ calls' = [calls EXCEPT ![t] =
                    [@ EXCEPT !.acc = EvalIter(@, calls[t].args.scenario,
                                               calls[t].args.baseline, calls[t].args.context,
                                               cached_model, calls[t].k),
                              !.k = @ + 1,
                              !.reads_own = @ /\ EnsureModel(cached_model)
                                                    = calls[t].args.uplift_model]]
    /\ cached_model' = EnsureModel(cached_model)
    /\ UNCHANGED <<last, probe>>

\* lines 136-174: the call returns its ScenarioKPI
Finish(t) ==
    /\ calls[t].pc = "loop"
    /\ calls[t].k >= NumIterations(calls[t].args.scenario)
    /\ LET kpi == FinishKPI(calls[t].acc, calls[t].args.scenario, calls[t].args.baseline)
       IN  /\ calls' = [calls EXCEPT ![t] =
                          [pc |-> "done", args |-> calls[t].args, result |-> kpi,
                           reads_own |-> calls[t].reads_own]]
           /\ last' = [op |-> "evaluate_scenario", args |-> calls[t].args, result |-> kpi]
    /\ UNCHANGED <<cached_model, probe>>

NextConc == \E t \in Threads : Begin(t) \/ Step(t) \/ Finish(t)

SpecConc == InitConc /\ [][NextConc]_vars

\* the KPI a call returns when no other call runs on the engine meanwhile
AloneKPI(a) == evaluate_scenario("None", a.scenario, a.baseline, a.uplift_model, a.context)

\* C2: when two calls with different uplift models interleave on the shared engine,
\* every estimate_uplift of a call reads the model passed to that call and each
\* call returns the KPI it returns when it runs alone
C2_InterleavedCallsIsolated ==
    \A t \in Threads, u \in Threads :
        (/\ calls[t].pc = "done"
         /\ calls[u].pc # "idle"
         /\ calls[u].args.uplift_model # calls[t].args.uplift_model)
            => /\ calls[t].reads_own
               /\ calls[t].result = AloneKPI(calls[t].args)

----------------------------------------------------------------------------
(* SalesDataTool.  A DataFrame is a sequence of rows; stored is the        *)
(* content of the CSV file or database table the tool reads.  Day 0 is     *)
(* Monday 2024-10-07, so that t % 7 is date.weekday() of day t.            *)

Weekday(t) == t % 7

RECURSIVE SeqSum(_, _)
SeqSum(rows, field) ==
    IF rows = << >> THEN RZero
    ELSE IF Len(rows) = 1 THEN rows[1][field]
    ELSE RAdd(SeqSum(SubSeq(rows, 1, Len(rows) \div 2), field),
              SeqSum(SubSeq(rows, Len(rows) \div 2 + 1, Len(rows)), field))

\* Series.mean() of a non-empty column
SeqMean(rows, field) == RDiv(SeqSum(rows, field), Rat(Len(rows), 1))

\* floor of a rational
RFloor(a) == a[1] \div a[2]

\* round(x, 2) for x >= 0
Round2(a) == Rat(RFloor(RAdd(RMul(a, Rat(100, 1)), Rat(1, 2))), 100)

ErrorResult(e) == [kind |-> "error", error |-> e]

IsError(r) == r.kind = "error"

SyntheticDepartments == <<"TV", "GAMING", "AUDIO">>

SyntheticChannels == <<"online", "store">>

\* one row of _generate_synthetic_dataframe, lines 209-236; the seeded noise
\* term of line 219 is taken as 0
SyntheticRow(day, dept_idx, ch_idx) ==
    Let2(Weekday(day) \in {4, 5}, IF Weekday(day) \in {4, 5} THEN Rat(11, 10) ELSE Rat(95, 100),
         LAMBDA promo, weekday_factor :
    Let2(RAdd(ROne, Rat(dept_idx * 5, 100)), RAdd(ROne, Rat(ch_idx * 3, 100)),
         LAMBDA dept_factor, channel_factor :
    Let2(IF promo THEN Rat(18, 100) ELSE RZero,
         RMax(Rat(18000, 1),
              RMul(RMul(RMul(Rat(42000, 1), dept_factor), channel_factor), weekday_factor)),
         LAMBDA discount_base, sales_value :
        [date |-> day,
         channel |-> Lower(SyntheticChannels[ch_idx]),
         department |-> Upper(SyntheticDepartments[dept_idx]),
         promo_flag |-> IF promo THEN "True" ELSE "False",
         discount_pct |-> Round2(RMul(discount_base, Rat(100, 1))),
         sales_value |-> Round2(sales_value),
         margin_value |-> Round2(RMul(sales_value,
                                      RSub(Rat(26, 100), RMul(discount_base, Rat(4, 10))))),
         units |-> Round2(RMax(Rat(80, 1), RDiv(sales_value, Rat(400, 1))))])))

\* the rows of days a..b in generation order
SyntheticRows(a, b) ==
    [i \in 1..(IF a > b THEN 0 ELSE 6 * (b - a + 1)) |->
        SyntheticRow(a + ((i - 1) \div 6), 1 + (((i - 1) % 6) \div 2), 1 + ((i - 1) % 2))]

\* SalesDataTool._generate_synthetic_dataframe for a given date range: an empty
\* range gives a frame without columns and line 239 raises KeyError
generate_synthetic_dataframe(date_range) ==
    IF date_range.start_date > date_range.end_date
    THEN ErrorResult("KeyError")
    ELSE [kind |-> "DataFrame",
          rows |-> SyntheticRows(date_range.start_date, date_range.end_date)]

\* lines 115-121: the optional filters; a filter that is None or "" is skipped
ApplyFilters(rows, filters) ==
    Let(IF filters.channel \notin {"None", ""}
        THEN SelectSeq(rows, LAMBDA r : r.channel = Lower(filters.channel))
        ELSE rows,
        LAMBDA f1 :
    Let(IF filters.department \notin {"None", ""}
        THEN SelectSeq(f1, LAMBDA r : r.department = Upper(filters.department))
        ELSE f1,
        LAMBDA f2 :
        IF filters.promo_flag \notin {"None", ""}
        THEN SelectSeq(f2, LAMBDA r : r.promo_flag = filters.promo_flag)
        ELSE f2))

NoFilters == [channel |-> "None", department |-> "None", promo_flag |-> "None"]

\* SalesDataTool._filter_dataframe on a non-empty stored frame
filter_dataframe(stored, date_range, filters) ==
    Let(SelectSeq(stored, LAMBDA r : /\ r.date >= date_range.start_date
                                     /\ r.date <= date_range.end_date),
        LAMBDA filtered :
        IF filtered = << >>
        THEN Let(generate_synthetic_dataframe(date_range), LAMBDA df :
                 IF IsError(df) THEN df
                 ELSE [kind |-> "DataFrame", rows |-> ApplyFilters(df.rows, filters)])
        ELSE [kind |-> "DataFrame", rows |-> ApplyFilters(filtered, filters)])

\* the distinct values of a column, as a set
ColumnValues(rows, field) == {rows[i][field] : i \in DOMAIN rows}

\* SalesDataTool.get_daily_sales: one row per date, in date order
RECURSIVE DailyRows(_, _)
DailyRows(rows, dates) ==
    IF dates = {} THEN << >>
    ELSE Let(CHOOSE x \in dates : \A y \in dates : x <= y, LAMBDA d :
         Let(SelectSeq(rows, LAMBDA r : r.date = d), LAMBDA g :
             <<[date |-> d,
                sales_value |-> SeqSum(g, "sales_value"),
                margin_value |-> SeqSum(g, "margin_value"),
                units |-> SeqSum(g, "units")]>>
             \o DailyRows(rows, dates \ {d})))

get_daily_sales(stored, date_range, channel, department) ==
    Let(filter_dataframe(stored, date_range,
                         [channel |-> channel, department |-> department,
                          promo_flag |-> "None"]),
        LAMBDA df :
        IF IsError(df) THEN df
        ELSE [kind |-> "DataFrame", rows |-> DailyRows(df.rows, ColumnValues(df.rows, "date"))])

\* the key of a row under a grain (a sequence of column names)
GroupKey(r, grain) == [i \in DOMAIN grain |-> r[grain[i]]]

\* one group of get_aggregated_sales: sums, and the mean of discount_pct
GroupRow(g, key) ==
    [key |-> key,
     sales_value |-> SeqSum(g, "sales_value"),
     margin_value |-> SeqSum(g, "margin_value"),
     units |-> SeqSum(g, "units"),
     discount_pct |-> SeqMean(g, "discount_pct")]

\* SalesDataTool.get_aggregated_sales: the groups of the filtered frame
get_aggregated_sales(stored, date_range, grain, filters) ==
    IF grain = << >> THEN ErrorResult("ValueError")
    ELSE Let(filter_dataframe(stored, date_range, filters), LAMBDA df :
             IF IsError(df) THEN df
             ELSE [kind |-> "DataFrame",
                   rows |-> {GroupRow(SelectSeq(df.rows, LAMBDA r : GroupKey(r, grain) = key),
                                      key)
                             : key \in {GroupKey(df.rows[i], grain) : i \in DOMAIN df.rows}}])

----------------------------------------------------------------------------
(* ForecastBaselineEngine.                                                 *)

\* TargetsConfigTool.get_targets: every day of the model lies in 2024-10
DefaultTargets ==
    [sales_target |-> Rat(1100000, 1), margin_target |-> Rat(24, 100),
     units_target |-> Rat(2200, 1)]

\* calculate_gap_vs_targets testing the targets for truth instead of for None
calculate_gap_vs_targets_truthy(baseline, targets) ==
    [sales_gap  |-> IF targets.sales_target # "None" /\ targets.sales_target # RZero
                    THEN RSub(baseline.total_sales, targets.sales_target) ELSE RZero,
     units_gap  |-> IF targets.units_target # "None" /\ targets.units_target # RZero
                    THEN RSub(baseline.total_units, targets.units_target) ELSE RZero,
     margin_gap |-> IF targets.margin_target # "None" /\ targets.margin_target # RZero
                    THEN RSub(IF baseline.total_sales # RZero
                              THEN RDiv(baseline.total_margin, baseline.total_sales)
                              ELSE RZero,
                              targets.margin_target)
                    ELSE RZero]

\* ForecastBaselineEngine.calculate_gap_vs_targets; an absent target is "None"
calculate_gap_vs_targets(baseline, targets) ==
    [sales_gap  |-> IF targets.sales_target # "None"
                    THEN RSub(baseline.total_sales, targets.sales_target) ELSE RZero,
     units_gap  |-> IF targets.units_target # "None"
                    THEN RSub(baseline.total_units, targets.units_target) ELSE RZero,
     margin_gap |-> IF targets.margin_target # "None"
                    THEN RSub(IF baseline.total_sales # RZero
                              THEN RDiv(baseline.total_margin, baseline.total_sales)
                              ELSE RZero,
                              targets.margin_target)
                    ELSE RZero]

\* lines 79-89 taking the overall means whatever the weekday
DayProjection_overall(hist, current_date) ==
    [sales  |-> SeqMean(hist, "sales_value"),
     margin |-> SeqMean(hist, "margin_value"),
     units  |-> SeqMean(hist, "units")]

\* lines 71-73 and 79-89: the projection of one day
DayProjection(hist, current_date) ==
    Let(SelectSeq(hist, LAMBDA r : Weekday(r.date) = Weekday(current_date)), LAMBDA same_dow :
    Let(IF same_dow # << >> THEN same_dow ELSE hist, LAMBDA rows :
        [sales  |-> SeqMean(rows, "sales_value"),
         margin |-> SeqMean(rows, "margin_value"),
         units  |-> SeqMean(rows, "units")]))

NoProjections == [d \in {} |-> ZeroProjection]

\* lines 91-93 adding the overall means instead of the day's projection
AddDay_overall(acc, hist, current_date) ==
    Let(DayProjection(hist, current_date), LAMBDA p :
        [daily_projections |-> (current_date :> p) @@ acc.daily_projections,
         sales  |-> RAdd(acc.sales, SeqMean(hist, "sales_value")),
         margin |-> RAdd(acc.margin, SeqMean(hist, "margin_value")),
         units  |-> RAdd(acc.units, SeqMean(hist, "units"))])

\* lines 85-93: the day's projection is stored and added to the totals
AddDay(acc, hist, current_date) ==
    Let(DayProjection(hist, current_date), LAMBDA p :
        [daily_projections |-> (current_date :> p) @@ acc.daily_projections,
         sales  |-> RAdd(acc.sales, p.sales),
         margin |-> RAdd(acc.margin, p.margin),
         units  |-> RAdd(acc.units, p.units)])

\* the loop of lines 78-93 from current_date on
RECURSIVE BaselineLoop(_, _, _, _)
BaselineLoop(acc, hist, current_date, end_date) ==
    IF current_date > end_date THEN acc
    ELSE Bind(AddDay(acc, hist, current_date),
              LAMBDA a : BaselineLoop(a, hist, current_date + 1, end_date))

\* lines 68-112 on the history frame hist_df
BaselineFromHistory(date_range, hist_df, targets_tool) ==
    IF hist_df.rows = << >> THEN ErrorResult("ValueError")
    ELSE
        Let(BaselineLoop([daily_projections |-> NoProjections, sales |-> RZero,
                          margin |-> RZero, units |-> RZero],
                         hist_df.rows, date_range.start_date, date_range.end_date),
            LAMBDA acc :
        Let([kind |-> "BaselineForecast",
             date_range |-> date_range,
             daily_projections |-> acc.daily_projections,
             total_sales |-> acc.sales,
             total_margin |-> acc.margin,
             total_units |-> acc.units],
            LAMBDA baseline :
            baseline
            @@ [gap_vs_target |->
                    IF targets_tool
                    THEN [is_none |-> FALSE,
                          gap |-> calculate_gap_vs_targets(baseline, DefaultTargets)]
                    ELSE [is_none |-> TRUE]]))

\* ForecastBaselineEngine.calculate_baseline; historical_data is
\* [is_none |-> TRUE] or [is_none |-> FALSE, rows |-> ...]
calculate_baseline(stored, date_range, historical_data, targets_tool) ==
    Let(IF ~historical_data.is_none
        THEN [kind |-> "DataFrame", rows |-> historical_data.rows]
        ELSE get_daily_sales(stored, date_range, "None", "None"),
        LAMBDA hist_df :
        IF IsError(hist_df) THEN hist_df
        ELSE BaselineFromHistory(date_range, hist_df, targets_tool))

----------------------------------------------------------------------------
(* calculate_baseline over date ranges, histories and stored data.         *)

\* the last day a requested range may reach
RangeEnd == 8

SalesRow(d, ch, dept, promo, disc, s, m, u) ==
    [date |-> d, channel |-> ch, department |-> dept, promo_flag |-> promo,
     discount_pct |-> Rat(disc, 1), sales_value |-> Rat(s, 1), margin_value |-> Rat(m, 1),
     units |-> Rat(u, 1)]

\* stored frames: channel lower-cased, department upper-cased, promo_flag a string
\* (lines 58-60); both hold rows for days 0..MaxDay only
StoredDatasets ==
    {<<SalesRow(0, "online", "TV", "False", 0, 100, 30, 10),
       SalesRow(0, "store", "TV", "True", 20, 150, 30, 14),
       SalesRow(MaxDay, "online", "AUDIO", "False", 0, 60, 20, 5)>>,
     <<SalesRow(0, "online", "TV", "True", 10, 90, 20, 9),
       SalesRow(MaxDay, "online", "TV", "False", 0, 70, 21, 7),
       SalesRow(MaxDay, "store", "GAMING", "False", 0, 0, 0, 0)>>}

HistRow(d, s, m, u) ==
    [date |-> d, sales_value |-> Rat(s, 1), margin_value |-> Rat(m, 1), units |-> Rat(u, 1)]

Histories ==
    {[is_none |-> TRUE],
     [is_none |-> FALSE, rows |-> << >>],
     [is_none |-> FALSE, rows |-> <<HistRow(0, 80, 20, 8)>>],
     [is_none |-> FALSE, rows |-> <<HistRow(0, 80, 20, 8), HistRow(1, 85, 21, 9),
                                    HistRow(7, 81, 22, 8), HistRow(3, 0, 0, 0)>>],
     \* every weekday observed, Monday twice: the weekday means of the sales are
     \* 80k, 85k, 90k, 95k, 110k, 120k and 70k
     [is_none |-> FALSE,
      rows |-> <<HistRow(0, 70000, 20000, 700), HistRow(1, 85000, 21000, 850),
                 HistRow(2, 90000, 22000, 900), HistRow(3, 95000, 23000, 950),
                 HistRow(4, 110000, 27000, 1100), HistRow(5, 120000, 30000, 1200),
                 HistRow(6, 70000, 17000, 700), HistRow(7, 90000, 24000, 900)>>]}

BaselineRanges ==
    {[start_date |-> a, end_date |-> b] : a \in 0..RangeEnd, b \in 0..RangeEnd}

BaselineArgs ==
    [stored : StoredDatasets, date_range : BaselineRanges,
     historical_data : Histories, targets_tool : BOOLEAN]

InitBaseline ==
    /\ cached_model = "None"
    /\ last \in Pending(BaselineArgs)
    /\ probe = NoProbe
    /\ calls = << >>

\* ForecastBaselineEngine.calculate_baseline, a whole call
CalculateBaseline ==
    /\ last.op = "pending"
    /\ last' = [op |-> "calculate_baseline", args |-> last.args,
                result |-> calculate_baseline(last.args.stored, last.args.date_range,
                                              last.args.historical_data,
                                              last.args.targets_tool)]
    /\ UNCHANGED <<cached_model, probe, calls>>

NextBaseline == CalculateBaseline

SpecBaseline == InitBaseline /\ [][NextBaseline]_vars

\* C3: the totals of a returned BaselineForecast are the sums of the sales, the
\* margins and the units of its daily projections
C3_TotalsAreSums ==
    (last.op = "calculate_baseline" /\ ~IsError(last.result)) =>
        LET p == last.result.daily_projections IN
        /\ last.result.total_sales = SumField(p, DOMAIN p, "sales")
        /\ last.result.total_margin = SumField(p, DOMAIN p, "margin")
        /\ last.result.total_units = SumField(p, DOMAIN p, "units")

\* a forecast over several days whose projections differ (a weekday mean and the
\* overall mean), with totals that are not 0
C3_Witness ==
    /\ last.op = "calculate_baseline"
    /\ ~IsError(last.result)
    /\ ~last.args.historical_data.is_none
    /\ LET p == last.result.daily_projections IN
        /\ Cardinality(DOMAIN p) >= 3
        /\ \E d1 \in DOMAIN p, d2 \in DOMAIN p : p[d1].sales # p[d2].sales
        /\ last.result.total_sales = SumField(p, DOMAIN p, "sales")
        /\ last.result.total_sales # RZero

\* the rows the data source holds for a window
StoredInWindow(stored, date_range) ==
    SelectSeq(stored, LAMBDA r : /\ r.date >= date_range.start_date
                                 /\ r.date <= date_range.end_date)

\* C9: when no historical rows exist for the requested window, calculate_baseline
\* fails with the data-unavailable error (ValueError, line 69) and returns no
\* forecast, whether the empty history is passed in or fetched from the data source
C9_NoRowsFails ==
    (/\ last.op = "calculate_baseline"
     /\ last.args.date_range.start_date <= last.args.date_range.end_date
     /\ IF last.args.historical_data.is_none
        THEN StoredInWindow(last.args.stored, last.args.date_range) = << >>
        ELSE last.args.historical_data.rows = << >>)
        => /\ IsError(last.result)
           /\ last.result.error = "ValueError"

\* C10: evaluate_scenario on a scenario whose start_date is after its end_date, or
\* whose departments or channels list is empty, returns an error and no ScenarioKPI
C10_InvalidScenarioRejected ==
    (/\ last.op = "evaluate_scenario"
     /\ \/ last.args.scenario.date_range.start_date > last.args.scenario.date_range.end_date
        \/ last.args.scenario.departments = << >>
        \/ last.args.scenario.channels = << >>)
        => /\ IsError(last.result)
           /\ last.result.kind # "ScenarioKPI"

----------------------------------------------------------------------------
(* SalesDataTool queries over stored data, grains and filters.             *)

SalesRanges == {[start_date |-> a, end_date |-> b] : a \in 0..(MaxDay + 1), b \in 0..(MaxDay + 1)}

SalesGrains == {<< >>, <<"channel">>, <<"date">>, <<"department", "channel">>}

SalesFilters ==
    [channel : {"None", "Online"}, department : {"None", "tv"}, promo_flag : {"None", "True"}]

AggregatedArgs ==
    [stored : StoredDatasets, date_range : SalesRanges, grain : SalesGrains,
     filters : SalesFilters]

DailyArgs ==
    [stored : StoredDatasets, date_range : SalesRanges,
     channel : {"None", "Online"}, department : {"None", "tv"}]

InitSales ==
    /\ cached_model = "None"
    /\ last \in Pending(AggregatedArgs \cup DailyArgs)
    /\ probe = NoProbe
    /\ calls = << >>

\* SalesDataTool.get_aggregated_sales, a whole call
GetAggregatedSales ==
    /\ last.op = "pending"
    /\ last.args \in AggregatedArgs
    /\ last' = [op |-> "get_aggregated_sales", args |-> last.args,
                result |-> get_aggregated_sales(last.args.stored, last.args.date_range,
                                                last.args.grain, last.args.filters)]
    /\ UNCHANGED <<cached_model, probe, calls>>

\* SalesDataTool.get_daily_sales, a whole call
GetDailySales ==
    /\ last.op = "pending"
    /\ last.args \in DailyArgs
    /\ last' = [op |-> "get_daily_sales", args |-> last.args,
                result |-> get_daily_sales(last.args.stored, last.args.date_range,
                                           last.args.channel, last.args.department)]
    /\ UNCHANGED <<cached_model, probe, calls>>

NextSales == GetAggregatedSales \/ GetDailySales

SpecSales == InitSales /\ [][NextSales]_vars

\* get_aggregated_sales with an empty grain list returns an error and no rows
EmptyGrainRejected ==
    (last.op = "get_aggregated_sales" /\ last.args.grain = << >>)
        => IsError(last.result)

----------------------------------------------------------------------------
(* ValidationEngine.  config_tool is [is_none |-> TRUE] for an engine      *)
(* built without a config tool, else the constraints and brand rules the   *)
(* tool returns.  scenario.metadata is [kind |-> "None"] or a dict: without*)
(* the key "mandatory_elements", or with a value that is a list (a set of  *)
(* elements here) or None.  A message is a record of its text and of the   *)
(* values formatted into it.                                               *)

NoConfigTool == [is_none |-> TRUE]

ConfigTool(max_discount, min_margin, mandatory_elements) ==
    [is_none |-> FALSE,
     constraints |-> [max_discount |-> max_discount, min_margin |-> min_margin],
     brand_rules |-> [mandatory_elements |-> mandatory_elements]]

\* TargetsConfigTool.DEFAULT_CONSTRAINTS and DEFAULT_BRAND_RULES
DefaultConfigTool ==
    ConfigTool(Rat(25, 100), Rat(18, 100),
               {"legal disclaimer", "promo window", "channels covered"})

\* lines 65 and 146: constraints.max_discount * 100 if constraints else 25.0
MaxDiscountPct(config_tool) ==
    IF config_tool.is_none THEN Rat(25, 1)
    ELSE RMul(config_tool.constraints.max_discount, Rat(100, 1))

\* lines 74 and 159: constraints.min_margin if constraints else 0.18
MinMargin(config_tool) ==
    IF config_tool.is_none THEN Rat(18, 100) ELSE config_tool.constraints.min_margin

\* line 148 with < in place of <=
check_discount_limits_strict(config_tool, scenario) ==
    RLt(Rat(scenario.discount_percentage, 1), MaxDiscountPct(config_tool))

\* ValidationEngine.check_discount_limits
check_discount_limits(config_tool, scenario) ==
    RLe(Rat(scenario.discount_percentage, 1), MaxDiscountPct(config_tool))

\* check_margin_thresholds with the check skipped as passed when sales is 0
check_margin_thresholds_skip(config_tool, kpi) ==
    IF kpi.total_sales = RZero THEN TRUE
    ELSE RLe(MinMargin(config_tool), RDiv(kpi.total_margin, kpi.total_sales))

\* ValidationEngine.check_margin_thresholds
check_margin_thresholds(config_tool, kpi) ==
    IF kpi.total_sales = RZero THEN FALSE
    ELSE RLe(MinMargin(config_tool), RDiv(kpi.total_margin, kpi.total_sales))

\* the nearest integer, halves to the even one
RoundHalfEven(a) ==
    Let2(RFloor(a), RSub(a, Rat(RFloor(a), 1)), LAMBDA f, r :
        IF RLt(r, Rat(1, 2)) THEN f
        ELSE IF RLt(Rat(1, 2), r) THEN f + 1
        ELSE IF f % 2 = 0 THEN f ELSE f + 1)

\* format(x, ".2%"): the percentage with two decimals
Pct2(a) == Rat(RoundHalfEven(RMul(a, Rat(10000, 1))), 100)

\* lines 54-56
NoFindings == [issues |-> << >>, fixes |-> << >>, checks_passed |-> [c \in {} |-> TRUE]]

\* a failed check that appends its issue and leaves fixes alone
Failed_nofix(st, check, issue, fix) ==
    [issues |-> Append(st.issues, issue),
     fixes |-> st.fixes,
     checks_passed |-> (check :> FALSE) @@ st.checks_passed]

\* a failed check: issues.append, fixes.append and checks_passed[check] = False
Failed(st, check, issue, fix) ==
    [issues |-> Append(st.issues, issue),
     fixes |-> Append(st.fixes, fix),
     checks_passed |-> (check :> FALSE) @@ st.checks_passed]

\* a passed check: checks_passed[check] = True
Passed(st, check) ==
    [st EXCEPT !.checks_passed = (check :> TRUE) @@ @]

\* lines 61-67
DiscountStep(st, config_tool, scenario) ==
    IF check_discount_limits(config_tool, scenario) THEN Passed(st, "discount_limits")
    ELSE Failed(st, "discount_limits",
                [text |-> "Discount exceeds maximum allowed",
                 discount |-> Rat(scenario.discount_percentage, 1),
                 max_discount |-> MaxDiscountPct(config_tool)],
                [text |-> "Reduce discount", max_discount |-> MaxDiscountPct(config_tool)])

\* lines 69-77
MarginStep(st, config_tool, kpi) ==
    IF kpi.is_none THEN st
    ELSE IF check_margin_thresholds(config_tool, kpi) THEN Passed(st, "margin_thresholds")
    ELSE Failed(st, "margin_thresholds",
                [text |-> "Margin below minimum threshold",
                 actual_margin |-> Pct2(IF RLt(RZero, kpi.total_sales)
                                        THEN RDiv(kpi.total_margin, kpi.total_sales)
                                        ELSE RZero),
                 min_margin |-> Pct2(MinMargin(config_tool))],
                [text |-> "Increase discount or adjust product mix",
                 min_margin |-> Pct2(MinMargin(config_tool))])

\* lines 79-85
DateRangeStep(st, scenario) ==
    IF scenario.date_range.start_date > scenario.date_range.end_date
    THEN Failed(st, "date_range",
                [text |-> "Start date is after end date"],
                [text |-> "Adjust date range so start date is before end date"])
    ELSE Passed(st, "date_range")

\* lines 87-93
DepartmentsStep(st, scenario) ==
    IF scenario.departments = << >>
    THEN Failed(st, "departments",
                [text |-> "No departments specified"],
                [text |-> "Add at least one department to the scenario"])
    ELSE Passed(st, "departments")

\* lines 95-100
ChannelsStep(st, scenario) ==
    IF scenario.channels = << >>
    THEN Failed(st, "channels",
                [text |-> "No channels specified"],
                [text |-> "Add at least one channel (online/store) to the scenario"])
    ELSE Passed(st, "channels")

\* lines 103-109
SalesPlausibilityStep(st, kpi) ==
    IF kpi.is_none THEN st
    ELSE IF RLt(kpi.total_sales, RZero)
    THEN Failed(st, "sales_plausibility",
                [text |-> "Total sales is negative"],
                [text |-> "Review scenario parameters - sales should be positive"])
    ELSE Passed(st, "sales_plausibility")

\* lines 103 and 111-116
MarginPlausibilityStep(st, kpi) ==
    IF kpi.is_none THEN st
    ELSE IF RLt(kpi.total_margin, RZero)
    THEN Failed(st, "margin_plausibility",
                [text |-> "Total margin is negative"],
                [text |-> "Review discount levels - margin should be positive"])
    ELSE Passed(st, "margin_plausibility")

\* (scenario.metadata or {}).get("mandatory_elements", [])
MetadataElements(scenario) ==
    IF scenario.metadata.kind = "dict" /\ scenario.metadata.has_key
    THEN scenario.metadata.value
    ELSE [kind |-> "list", elements |-> {}]

\* lines 119-128: "m not in None" raises TypeError for the first mandatory element
BrandStep(st, config_tool, scenario) ==
    IF config_tool.is_none THEN st
    ELSE IF config_tool.brand_rules.mandatory_elements = {} THEN Passed(st, "brand_compliance")
    ELSE IF MetadataElements(scenario).kind # "list" THEN ErrorResult("TypeError")
    ELSE Let(config_tool.brand_rules.mandatory_elements \ MetadataElements(scenario).elements,
             LAMBDA missing :
                IF missing # {}
                THEN Failed(st, "brand_compliance",
                            [text |-> "Missing brand mandatory elements", missing |-> missing],
                            [text |-> "Add mandatory brand elements to scenario metadata"])
                ELSE Passed(st, "brand_compliance"))

\* lines 130-138
Report(st, scenario) ==
    [kind |-> "ValidationReport",
     scenario_id |-> IF scenario.id \in {"None", ""} THEN "unknown" ELSE scenario.id,
     is_valid |-> Len(st.issues) = 0,
     issues |-> st.issues,
     fixes |-> st.fixes,
     checks_passed |-> st.checks_passed]

\* ValidationEngine.validate_scenario; kpi is [is_none |-> TRUE] or a ScenarioKPI
validate_scenario(config_tool, scenario, kpi) ==
    Bind(DiscountStep(NoFindings, config_tool, scenario), LAMBDA s1 :
    Bind(MarginStep(s1, config_tool, kpi), LAMBDA s2 :
    Bind(DateRangeStep(s2, scenario), LAMBDA s3 :
    Bind(DepartmentsStep(s3, scenario), LAMBDA s4 :
    Bind(ChannelsStep(s4, scenario), LAMBDA s5 :
    Bind(SalesPlausibilityStep(s5, kpi), LAMBDA s6 :
    Bind(MarginPlausibilityStep(s6, kpi), LAMBDA s7 :
    Bind(BrandStep(s7, config_tool, scenario), LAMBDA s8 :
        IF "error" \in DOMAIN s8 THEN s8 ELSE Report(s8, scenario)))))))))

----------------------------------------------------------------------------
(* validate_scenario over engines, scenarios and KPIs.                     *)

NoMetadata == [kind |-> "None"]

Metadata(has_key, value) == [kind |-> "dict", has_key |-> has_key, value |-> value]

ElementList(elements) == [kind |-> "list", elements |-> elements]

ValidationMetadata ==
    {NoMetadata,
     Metadata(FALSE, ElementList({})),
     Metadata(TRUE, ElementList({"legal disclaimer", "promo window", "channels covered"})),
     Metadata(TRUE, ElementList({"promo window"})),
     Metadata(TRUE, [kind |-> "None"])}

ValidationScenarios ==
    {MkScenario(id, r[1], r[2], depts, chans, pct) @@ [metadata |-> md] :
        id \in {"None", "sV"}, r \in {<<0, 1>>, <<0, 0>>, <<1, 0>>},
        depts \in {<< >>, <<"TV">>}, chans \in {<< >>, <<"online", "store">>},
        pct \in {0, 25, 26, 30, 50, 51}, md \in ValidationMetadata}

ValidationConfigTools ==
    {NoConfigTool, DefaultConfigTool, ConfigTool(Rat(1, 2), Rat(1, 5), {})}

NoKPI == [is_none |-> TRUE]

ValidationKPI(sales, margin) ==
    [is_none |-> FALSE, total_sales |-> Rat(sales, 1), total_margin |-> Rat(margin, 1)]

ValidationKPIs ==
    {NoKPI, ValidationKPI(0, 0), ValidationKPI(100, 30), ValidationKPI(100, 18),
     ValidationKPI(100, 10), ValidationKPI(-50, 10), ValidationKPI(100, -5),
     ValidationKPI(-100, -30)}

ValidationArgs ==
    [config_tool : ValidationConfigTools, scenario : ValidationScenarios, kpi : ValidationKPIs]

InitValidation ==
    /\ cached_model = "None"
    /\ last \in Pending(ValidationArgs)
    /\ probe = NoProbe
    /\ calls = << >>

\* ValidationEngine.validate_scenario, a whole call
ValidateScenario ==
    /\ last.op = "pending"
    /\ last' = [op |-> "validate_scenario", args |-> last.args,
                result |-> validate_scenario(last.args.config_tool, last.args.scenario,
                                             last.args.kpi)]
    /\ UNCHANGED <<cached_model, probe, calls>>

NextValidation == ValidateScenario

SpecValidation == InitValidation /\ [][NextValidation]_vars

\* C6: in a returned report, checks_passed["discount_limits"] is False exactly when
\* discount_percentage > constraints.max_discount * 100 (25 for an engine without
\* a config tool), and then issues and fixes are not empty and is_valid is False
C6_DiscountLimit ==
    (last.op = "validate_scenario" /\ ~IsError(last.result)) =>
        LET max_discount == IF last.args.config_tool.is_none THEN <<1, 4>>
                            ELSE last.args.config_tool.constraints.max_discount
            over == last.args.scenario.discount_percentage * max_discount[2]
                        > max_discount[1] * 100
        IN  /\ last.result.checks_passed["discount_limits"] = ~over
            /\ over => /\ last.result.issues # << >>
                       /\ last.result.fixes # << >>
                       /\ ~last.result.is_valid

\* discount_percentage = 30 with max_discount = 0.25 in an otherwise valid scenario:
\* the discount check is the one failed check of the report
C6_Witness ==
    /\ last.op = "validate_scenario"
    /\ ~IsError(last.result)
    /\ last.args.scenario.discount_percentage = 30
    /\ ~last.args.config_tool.is_none
    /\ last.args.config_tool.constraints.max_discount = Rat(25, 100)
    /\ ~last.result.checks_passed["discount_limits"]
    /\ Len(last.result.issues) = 1
    /\ Len(last.result.fixes) = 1
    /\ ~last.result.is_valid

\* the checks of a report that did not pass
FailedChecks(report) == {c \in DOMAIN report.checks_passed : ~report.checks_passed[c]}

\* C7: in every returned report is_valid is True exactly when issues is empty, which
\* is exactly when every entry of checks_passed is True; issues and fixes have the
\* same length, the number of False entries of checks_passed
C7_ReportConsistent ==
    (last.op = "validate_scenario" /\ ~IsError(last.result)) =>
        /\ last.result.is_valid <=> last.result.issues = << >>
        /\ last.result.issues = << >> <=> FailedChecks(last.result) = {}
        /\ Len(last.result.issues) = Cardinality(FailedChecks(last.result))
        /\ Len(last.result.fixes) = Cardinality(FailedChecks(last.result))

\* a report with a KPI and brand rules, in which three checks failed and others passed
C7_Witness ==
    /\ last.op = "validate_scenario"
    /\ ~IsError(last.result)
    /\ ~last.args.kpi.is_none
    /\ ~last.args.config_tool.is_none
    /\ Cardinality(FailedChecks(last.result)) = 3
    /\ Cardinality(DOMAIN last.result.checks_passed) = 8
    /\ Len(last.result.issues) = 3
    /\ Len(last.result.fixes) = 3
    /\ ~last.result.is_valid

\* C8: validate_scenario returns a ValidationReport for every scenario and raises
\* no exception
C8_NeverRaises ==
    last.op = "validate_scenario" =>
        /\ ~IsError(last.result)
        /\ last.result.kind = "ValidationReport"

----------------------------------------------------------------------------
(* calculate_frontier (api/routes/optimization.py), from the list of KPIs  *)
(* its evaluations produced: coordinates and Pareto flags.                 *)

\* line 148-150 without the strict part: equal coordinates dominate each other
Dominates_weak(other_kpi, kpi) ==
    /\ RLe(kpi.total_sales, other_kpi.total_sales)
    /\ RLe(kpi.total_margin, other_kpi.total_margin)

\* lines 148-150: other_kpi dominates kpi
Dominates(other_kpi, kpi) ==
    /\ RLe(kpi.total_sales, other_kpi.total_sales)
    /\ RLe(kpi.total_margin, other_kpi.total_margin)
    /\ \/ RLt(kpi.total_sales, other_kpi.total_sales)
       \/ RLt(kpi.total_margin, other_kpi.total_margin)

\* lines 144-152: the inner loop from index j on, left at the first dominating KPI
RECURSIVE IsOptimalFrom(_, _, _)
IsOptimalFrom(kpis, i, j) ==
    IF j > Len(kpis) THEN TRUE
    ELSE IF i # j /\ Dominates(kpis[j], kpis[i]) THEN FALSE
    ELSE IsOptimalFrom(kpis, i, j + 1)

\* lines 137-139
Coordinates(kpis) == [i \in 1..Len(kpis) |-> <<kpis[i].total_sales, kpis[i].total_margin>>]

\* lines 142-153
ParetoOptimal(kpis) == [i \in 1..Len(kpis) |-> IsOptimalFrom(kpis, i, 1)]

\* lines 136-159: the FrontierData built from the evaluated KPIs
FrontierData(scenario_ids, kpis) ==
    [kind |-> "FrontierData",
     scenarios |-> scenario_ids,
     coordinates |-> Coordinates(kpis),
     pareto_optimal |-> ParetoOptimal(kpis)]

\* the longest scenario list considered
MaxScenarios == 3

FrontierKPI(sales, margin) == [total_sales |-> Rat(sales, 1), total_margin |-> Rat(margin, 1)]

FrontierKPIs ==
    {FrontierKPI(100000, 20000), FrontierKPI(120000, 25000), FrontierKPI(120000, 20000),
     FrontierKPI(100000, 25000), FrontierKPI(110000, 22000)}

\* the non-empty lists of at most MaxScenarios KPIs (an empty scenario list is
\* refused at lines 115-116)
FrontierArgs ==
    UNION {[1..n -> FrontierKPIs] : n \in 1..MaxScenarios}

InitFrontier ==
    /\ cached_model = "None"
    /\ last \in Pending(FrontierArgs)
    /\ probe = NoProbe
    /\ calls = << >>

\* calculate_frontier, lines 136-159, on the KPIs of scenarios 1..n
CalculateFrontier ==
    /\ last.op = "pending"
    /\ last' = [op |-> "calculate_frontier", args |-> last.args,
                result |-> FrontierData([i \in 1..Len(last.args) |-> i], last.args)]
    /\ UNCHANGED <<cached_model, probe, calls>>

NextFrontier == CalculateFrontier

SpecFrontier == InitFrontier /\ [][NextFrontier]_vars

\* C5: pareto_optimal has one flag per input scenario, in input order, and flag i is
\* False exactly when another scenario j has sales_j >= sales_i and
\* margin_j >= margin_i with one of the two strict; in particular (100k, 20k),
\* (120k, 25k) gives False, True and identical coordinates are all True
C5_ParetoFlags ==
    last.op = "calculate_frontier" =>
        LET kpis == last.args
            flags == last.result.pareto_optimal
            S(i) == kpis[i].total_sales[1]
            M(i) == kpis[i].total_margin[1]
        IN  /\ DOMAIN flags = DOMAIN kpis
            /\ \A i \in DOMAIN kpis :
                 /\ last.result.coordinates[i] = <<kpis[i].total_sales, kpis[i].total_margin>>
                 /\ flags[i] = ~(\E j \in DOMAIN kpis :
                                    /\ j # i
                                    /\ S(j) >= S(i)
                                    /\ M(j) >= M(i)
                                    /\ (S(j) > S(i) \/ M(j) > M(i)))
            /\ (kpis = <<FrontierKPI(100000, 20000), FrontierKPI(120000, 25000)>>)
                  => flags = <<FALSE, TRUE>>
            /\ (\A i \in DOMAIN kpis : kpis[i] = kpis[1])
                  => \A i \in DOMAIN kpis : flags[i]

\* three scenarios of which two have identical coordinates and dominate the third:
\* the two are optimal, the third is not
C5_Witness ==
    /\ last.op = "calculate_frontier"
    /\ Len(last.args) = 3
    /\ last.args[1] = last.args[3]
    /\ last.args[2] = FrontierKPI(100000, 20000)
    /\ last.args[1] = FrontierKPI(120000, 25000)
    /\ last.result.pareto_optimal = <<TRUE, FALSE, TRUE>>

----------------------------------------------------------------------------
(* UpliftElasticityEngine.build_uplift_model.  source is what the sales    *)
(* data tool can read: [kind |-> "stored", rows |-> ...], or an error that *)
(* the read raises.  The aggregated frame has one row per (department,     *)
(* channel, promo_flag) group, its key in the order of the grain.          *)

\* line 119: timedelta(days=90)
LookbackDays == 90

\* the sum of a column over a set of rows
RECURSIVE SetSum(_, _)
SetSum(S, field) ==
    IF S = {} THEN RZero
    ELSE Let(CHOOSE r \in S : TRUE, LAMBDA r : RAdd(r[field], SetSum(S \ {r}, field)))

\* Series.mean() over the selected rows of the aggregated frame
SetMean(S, field) == RDiv(SetSum(S, field), Rat(Cardinality(S), 1))

\* lines 137-146: the rows of a department, channel and promo flag
PromoRows(df, dept, channel, flag) == {r \in df.rows : r.key = <<dept, channel, flag>>}

\* line 157 without the clamp
Clamp_none(elasticity) == elasticity

\* line 157: max(0.5, min(3.0, elasticity))
Clamp(elasticity) == RMax(Rat(1, 2), RMin(Rat(3, 1), elasticity))

\* lines 148-161: the coefficient of one (department, channel) pair
PairCoefficient(df, dept, channel) ==
    Let2(PromoRows(df, dept, channel, "True"), PromoRows(df, dept, channel, "False"),
         LAMBDA promo_data, non_promo_data :
        IF promo_data # {} /\ non_promo_data # {}
        THEN Let2(SetMean(promo_data, "sales_value"), SetMean(non_promo_data, "sales_value"),
                  LAMBDA promo_avg, non_promo_avg :
             Let(SetMean(promo_data, "discount_pct"), LAMBDA avg_discount :
                IF RLt(RZero, non_promo_avg) /\ RLt(RZero, avg_discount)
                THEN Clamp(RDiv(RDiv(RSub(promo_avg, non_promo_avg), non_promo_avg),
                                avg_discount))
                ELSE DefaultElasticity))
        ELSE DefaultElasticity)

\* lines 129-161: the table filled from the aggregated frame
CoefficientsFromData(df) ==
    Let2({r.key[1] : r \in df.rows}, {r.key[2] : r \in df.rows}, LAMBDA depts, channels :
        [dept_key \in {Upper(d) : d \in depts} |->
            [channel_key \in {Lower(c) : c \in channels} |->
                PairCoefficient(df, CHOOSE d \in depts : Upper(d) = dept_key,
                                CHOOSE c \in channels : Lower(c) = channel_key)]])

NoCoefficients == [c \in {} |-> [ch \in {} |-> RZero]]

\* lines 166-175: defaults for the missing default categories and channels
WithDefaults(coefficients) ==
    [cat \in DOMAIN coefficients \cup {"TV", "GAMING", "AUDIO"} |->
        IF cat \in {"TV", "GAMING", "AUDIO"}
        THEN [ch \in (IF cat \in DOMAIN coefficients THEN DOMAIN coefficients[cat] ELSE {})
                        \cup {"online", "store"} |->
                IF cat \in DOMAIN coefficients /\ ch \in DOMAIN coefficients[cat]
                THEN coefficients[cat][ch]
                ELSE DefaultElasticity]
        ELSE coefficients[cat]]

\* lines 123-126: the aggregated frame read from the source for the lookback window
ReadAggregated(source, today) ==
    IF IsError(source) THEN source
    ELSE get_aggregated_sales(source.rows,
                              [start_date |-> today - LookbackDays, end_date |-> today],
                              <<"department", "channel", "promo_flag">>, NoFilters)

\* lines 116-164: the table before the defaults; an exception of the read is
\* swallowed at lines 162-164 and leaves the table empty
CoefficientsRead(has_tool, source, today) ==
    IF ~has_tool THEN NoCoefficients
    ELSE Let(ReadAggregated(source, today), LAMBDA df :
             IF IsError(df) THEN NoCoefficients ELSE CoefficientsFromData(df))

\* UpliftElasticityEngine.build_uplift_model on an engine with (has_tool) or
\* without a sales data tool, called on day today
build_uplift_model(has_tool, source, today) ==
    [kind |-> "UpliftModel",
     coefficients |-> WithDefaults(CoefficientsRead(has_tool, source, today)),
     version |-> "1.0",
     last_updated |-> today]

\* ForecastBaselineEngine.calculate_baseline on a sales data tool reading source
calculate_baseline_from(source, date_range, historical_data, targets_tool) ==
    IF historical_data.is_none /\ IsError(source) THEN source
    ELSE calculate_baseline(IF IsError(source) THEN << >> ELSE source.rows,
                            date_range, historical_data, targets_tool)

----------------------------------------------------------------------------
(* build_uplift_model and calculate_baseline over data sources, one of     *)
(* which fails when it is read.                                            *)

FailingSource == ErrorResult("ConnectionError")

StoredSource(rows) == [kind |-> "stored", rows |-> rows]

\* a stored row of day 0 with a fractional discount
BuildRow(ch, dept, promo, disc_n, disc_d, s) ==
    [SalesRow(0, ch, dept, promo, 0, s, 0, 0) EXCEPT !.discount_pct = Rat(disc_n, disc_d)]

BuildDatasets ==
    { \* elasticity 2 on TV online, above 3 on TV store, below 0.5 on AUDIO online
      <<BuildRow("online", "TV", "True", 1, 5, 140), BuildRow("online", "TV", "False", 0, 1, 100),
        BuildRow("store", "TV", "True", 1, 5, 200), BuildRow("store", "TV", "False", 0, 1, 100),
        BuildRow("online", "AUDIO", "True", 1, 5, 90),
        BuildRow("online", "AUDIO", "False", 0, 1, 100)>>,
      \* promo rows only, non-promo rows only, and a department outside the defaults
      <<BuildRow("online", "TV", "True", 1, 5, 140), BuildRow("store", "TV", "False", 0, 1, 100),
        BuildRow("app", "PHONES", "True", 1, 4, 150),
        BuildRow("app", "PHONES", "False", 0, 1, 100)>>,
      \* non-promo sales of 0, a promo discount of 0, discounts in percent
      <<BuildRow("online", "TV", "True", 1, 5, 140), BuildRow("online", "TV", "False", 0, 1, 0),
        BuildRow("store", "TV", "True", 0, 1, 140), BuildRow("store", "TV", "False", 0, 1, 100),
        BuildRow("online", "GAMING", "True", 20, 1, 140),
        BuildRow("online", "GAMING", "False", 0, 1, 100)>>,
      \* two non-promo rows and one promo row in a pair
      <<BuildRow("online", "TV", "True", 1, 5, 140), BuildRow("online", "TV", "False", 0, 1, 100),
        [BuildRow("online", "TV", "False", 0, 1, 100) EXCEPT !.date = MaxDay]>> }

BuildSources == {FailingSource} \cup {StoredSource(rows) : rows \in BuildDatasets \cup StoredDatasets}

\* the days on which a model is built: the stored rows lie inside the lookback
\* window of the first and before the window of the second
BuildDays == {MaxDay, MaxDay + LookbackDays + 1}

BuildArgs == [has_tool : BOOLEAN, source : BuildSources, today : BuildDays]

BaselineFromArgs ==
    [source : {FailingSource} \cup {StoredSource(rows) : rows \in StoredDatasets},
     date_range : {[start_date |-> a, end_date |-> b] : a \in 0..1, b \in 0..(MaxDay + 1)},
     historical_data : Histories, targets_tool : {FALSE}]

InitBuild ==
    /\ cached_model = "None"
    /\ last \in Pending(BuildArgs \cup BaselineFromArgs)
    /\ probe = NoProbe
    /\ calls = << >>

\* UpliftElasticityEngine.build_uplift_model, a whole call
BuildUpliftModel ==
    /\ last.op = "pending"
    /\ last.args \in BuildArgs
    /\ last' = [op |-> "build_uplift_model", args |-> last.args,
                result |-> build_uplift_model(last.args.has_tool, last.args.source,
                                              last.args.today)]
    /\ UNCHANGED <<cached_model, probe, calls>>

\* ForecastBaselineEngine.calculate_baseline on a tool reading the source
CalculateBaselineFrom ==
    /\ last.op = "pending"
    /\ last.args \in BaselineFromArgs
    /\ last' = [op |-> "calculate_baseline", args |-> last.args,
                result |-> calculate_baseline_from(last.args.source, last.args.date_range,
                                                   last.args.historical_data,
                                                   last.args.targets_tool)]
    /\ UNCHANGED <<cached_model, probe, calls>>

NextBuild == BuildUpliftModel \/ CalculateBaselineFrom

SpecBuild == InitBuild /\ [][NextBuild]_vars

\* C11: when the data source fails while build_uplift_model or calculate_baseline
\* reads it, the call ends with that error: it returns no model and no forecast
C11_SourceErrorPropagates ==
    /\ (/\ last.op = "build_uplift_model"
        /\ last.args.has_tool
        /\ IsError(last.args.source))
          => last.result = last.args.source
    /\ (/\ last.op = "calculate_baseline"
        /\ last.args.historical_data.is_none
        /\ IsError(last.args.source))
          => last.result = last.args.source

----------------------------------------------------------------------------
(* The worked example: a discount of 20 or 21 percent on one department    *)
(* and one channel, evaluated and estimated on the default coefficients.   *)

ExampleScenarios ==
    {MkScenario("sX", r[1], r[2], <<dept>>, <<channel>>, pct) :
        r \in {<<0, 0>>, <<1, 1>>, <<0, MaxDay>>, <<1, MaxDay + 1>>},
        dept \in {"TV", "audio"}, channel \in {"online", "Online"}, pct \in {20, 21}}

ExampleEvalArgs ==
    [scenario : ExampleScenarios, baseline : EvalBaselines,
     uplift_model : {"built", "mHigh"}, context : {NoContext}]

ExampleEstimateArgs ==
    [category : {"TV", "audio"}, channel : {"online", "Online"},
     discount : {Rat(1, 5), Rat(21, 100)}, context : {NoContext, Ctx("factor", Rat(1, 2), 1)}]

InitExample ==
    /\ cached_model \in {"None", "built", "mHigh"}
    /\ last \in Pending(ExampleEvalArgs \cup ExampleEstimateArgs)
    /\ probe = NoProbe
    /\ calls = << >>

\* ScenarioEvaluationEngine.evaluate_scenario, a whole call
EvaluateExample ==
    /\ last.op = "pending"
    /\ last.args \in ExampleEvalArgs
    /\ last' = [op |-> "evaluate_scenario", args |-> last.args,
                result |-> evaluate_scenario(cached_model, last.args.scenario,
                                             last.args.baseline, last.args.uplift_model,
                                             last.args.context),
                cached |-> cached_model]
    /\ cached_model' = CacheAfterEvaluate(cached_model, last.args.scenario,
                                          last.args.uplift_model)
    /\ UNCHANGED <<probe, calls>>

\* UpliftElasticityEngine.estimate_uplift, a whole call
EstimateExample ==
    /\ last.op = "pending"
    /\ last.args \in ExampleEstimateArgs
    /\ last' = [op |-> "estimate_uplift", args |-> last.args,
                result |-> estimate_uplift(cached_model, last.args.category,
                                           last.args.channel, last.args.discount,
                                           last.args.context),
                cached |-> cached_model]
    /\ cached_model' = EnsureModel(cached_model)
    /\ UNCHANGED <<probe, calls>>

NextExample == EvaluateExample \/ EstimateExample

SpecExample == InitExample /\ [][NextExample]_vars

\* the sum of the baseline's sales over the days of the scenario it covers
CoveredBaselineSales(scenario, baseline) ==
    SumField(baseline.daily_projections,
             {d \in DOMAIN baseline.daily_projections :
                /\ scenario.date_range.start_date <= d
                /\ d <= scenario.date_range.end_date},
             "sales")

\* the example's case of estimate_uplift: discount 0.20, elasticity 1.5, no context
ExampleEstimate ==
    /\ last.op = "estimate_uplift"
    /\ last.cached \in {"None", "built"}
    /\ last.args.discount = Rat(20, 100)
    /\ last.args.context = NoContext

\* the example's case of evaluate_scenario: discount_percentage 20, elasticity 1.5
ExampleEvaluate ==
    /\ last.op = "evaluate_scenario"
    /\ last.args.uplift_model = "built"
    /\ last.args.scenario.discount_percentage = 20

\* C12 as stated: in the example estimate_uplift returns 0.2538 and the sales of
\* the covered days are the baseline's sales times 1.2538
C12_ExampleWithBand ==
    /\ ExampleEstimate => last.result = Rat(2538, 10000)
    /\ ExampleEvaluate =>
          last.result.total_sales
              = RMul(Rat(12538, 10000),
                     CoveredBaselineSales(last.args.scenario, last.args.baseline))

\* C12 (amended): in the example estimate_uplift returns 0.20 * 1.5 * (1 - 0.20 * 0.3)
\* = 0.282, the 0.9 band applying above 0.2 only, and the sales of the covered
\* days are the baseline's sales times 1.282
C12_ExampleUplift ==
    /\ ExampleEstimate => last.result = Rat(282, 1000)
    /\ ExampleEvaluate =>
          last.result.total_sales
              = RMul(Rat(1282, 1000),
                     CoveredBaselineSales(last.args.scenario, last.args.baseline))

\* an evaluation of the example over a covered day with sales and over a day
\* the baseline does not cover
C12_Witness ==
    /\ ExampleEvaluate
    /\ last.args.scenario.date_range.end_date = MaxDay + 1
    /\ last.result.total_sales # RZero
    /\ last.result.total_sales
          = RMul(Rat(1282, 1000), CoveredBaselineSales(last.args.scenario, last.args.baseline))

----------------------------------------------------------------------------
(* ScenarioOptimizationEngine.optimize_scenarios.  The objectives are a    *)
(* dict from objective names to weights; a candidate list is a sequence of *)
(* scenarios.                                                              *)

NoObjectives == [k \in {} |-> RZero]

\* sum(weights.values())
RECURSIVE SumValues(_, _)
SumValues(weights, keys) ==
    IF keys = {} THEN RZero
    ELSE Let(CHOOSE k \in keys : TRUE,
             LAMBDA k : RAdd(weights[k], SumValues(weights, keys \ {k})))

\* lines 158-160: the default for missing or empty objectives, the total that
\* is replaced by 1.0 when it is 0, and the division of every weight by it
NormalizedWeights(objectives) ==
    Let(IF DOMAIN objectives = {}
        THEN [k \in {"sales", "margin"} |-> IF k = "sales" THEN Rat(6, 10) ELSE Rat(4, 10)]
        ELSE objectives,
        LAMBDA weights :
    Let(SumValues(weights, DOMAIN weights), LAMBDA total :
        [k \in DOMAIN weights |->
            RDiv(weights[k], IF total = RZero THEN ROne ELSE total)]))

\* weights.get(key, default)
WeightOf(weights, key, default) == IF key \in DOMAIN weights THEN weights[key] ELSE default

\* lines 168 and 170: the score of a candidate, the same in both branches
ProxyScore(scenario, weights) ==
    RMul(Rat(scenario.discount_percentage, 100), WeightOf(weights, "sales", Rat(6, 10)))

\* list.sort(key, reverse=True) of line 176: stable, so candidates of equal
\* score keep the order they had; Insert places x after the entries of at least
\* its score
RECURSIVE InsertByScore(_, _, _)
InsertByScore(sorted, x, weights) ==
    IF sorted = << >> THEN <<x>>
    ELSE IF RLt(ProxyScore(Head(sorted), weights), ProxyScore(x, weights))
         THEN <<x>> \o sorted
         ELSE <<Head(sorted)>> \o InsertByScore(Tail(sorted), x, weights)

RECURSIVE SortByScore(_, _, _)
SortByScore(sorted, rest, weights) ==
    IF rest = << >> THEN sorted
    ELSE SortByScore(InsertByScore(sorted, Head(rest), weights), Tail(rest), weights)

\* ScenarioOptimizationEngine.optimize_scenarios
optimize_scenarios(candidates, objectives) ==
    IF candidates = << >> THEN << >>
    ELSE SortByScore(<< >>, candidates, NormalizedWeights(objectives))

\* the candidate lists considered have at most MaxScenarios entries
OptimizeCandidates ==
    {MkScenario("c10", 0, MaxDay, <<"TV">>, <<"online">>, 10),
     MkScenario("c20", 0, MaxDay, <<"TV">>, <<"online">>, 20),
     MkScenario("c30", 0, 0, <<"TV">>, <<"online">>, 30),
     MkScenario("c0", 1, 0, <<"TV">>, <<"online">>, 0)}

OptimizeLists ==
    UNION {[1..n -> OptimizeCandidates] : n \in 0..MaxScenarios}

Objectives(s, m) == [k \in {"sales", "margin"} |-> IF k = "sales" THEN s ELSE m]

OptimizeObjectives ==
    {NoObjectives, Objectives(Rat(6, 10), Rat(4, 10)), Objectives(Rat(3, 1), Rat(1, 1)),
     Objectives(RZero, ROne), Objectives(RZero, RZero), [k \in {"margin"} |-> ROne]}

OptimizeArgs == [candidates : OptimizeLists, objectives : OptimizeObjectives]

\* the baseline and model the candidates are evaluated on for their KPI
OptimizeBaseline == MkBaseline([d \in 0..MaxDay |-> Proj(500000, 150000, 1000)])

InitOptimize ==
    /\ cached_model = "None"
    /\ last \in Pending(OptimizeArgs)
    /\ probe = NoProbe
    /\ calls = << >>

\* ScenarioOptimizationEngine.optimize_scenarios, a whole call
OptimizeScenarios ==
    /\ last.op = "pending"
    /\ last' = [op |-> "optimize_scenarios", args |-> last.args,
                result |-> optimize_scenarios(last.args.candidates, last.args.objectives)]
    /\ UNCHANGED <<cached_model, probe, calls>>

NextOptimize == OptimizeScenarios

SpecOptimize == InitOptimize /\ [][NextOptimize]_vars

\* the score the ranking rule gives a candidate from its evaluated KPI
CompositeScore(scenario, weights) ==
    Let(evaluate_scenario("None", scenario, OptimizeBaseline, "built", NoContext),
        LAMBDA kpi :
        RAdd(RMul(weights["sales"], RDiv(kpi.total_sales, Rat(1000000, 1))),
             RMul(weights["margin"],
                  IF RLt(RZero, kpi.total_sales)
                  THEN RDiv(kpi.total_margin, kpi.total_sales)
                  ELSE RZero)))

\* the number of entries of a list equal to x
Occurrences(list, x) == Cardinality({i \in DOMAIN list : list[i] = x})

\* C13: optimize_scenarios returns every candidate exactly once, in the order of
\* non-increasing score weight_sales * (sales / 1,000,000) + weight_margin *
\* (margin / sales) of the candidates' KPIs under the normalized weights
C13_RankedByCompositeScore ==
    (/\ last.op = "optimize_scenarios"
     /\ DOMAIN last.args.objectives = {"sales", "margin"}
     /\ SumValues(last.args.objectives, {"sales", "margin"}) # RZero)
        => /\ \A x \in OptimizeCandidates :
                Occurrences(last.result, x) = Occurrences(last.args.candidates, x)
           /\ \A i \in 1..(Len(last.result) - 1) :
                RLe(CompositeScore(last.result[i + 1], NormalizedWeights(last.args.objectives)),
                    CompositeScore(last.result[i], NormalizedWeights(last.args.objectives)))

----------------------------------------------------------------------------
(* The frame of the evaluation calls on the shared engine.                 *)

\* C14: evaluate_scenario and estimate_uplift only read the shared state: a call
\* of either leaves the engine's cached model reference as it was
C14_CallsOnlyRead == [][cached_model' = cached_model]_vars

----------------------------------------------------------------------------
(* LearningEngine.update_uplift_model.  A post-mortem carries an optional  *)
(* sales_pct_error and a by_department dict of errors.                     *)

RECURSIVE SumSeq(_)
SumSeq(errors) ==
    IF errors = << >> THEN RZero ELSE RAdd(Head(errors), SumSeq(Tail(errors)))

\* _mean_error, lines 61-62
MeanError(errors) ==
    IF errors = << >> THEN RZero ELSE RDiv(SumSeq(errors), Rat(Len(errors), 1))

\* _adjust_factor, lines 64-65
AdjustFactor(err) == RMax(Rat(8, 10), RMin(Rat(12, 10), RSub(ROne, err)))

\* lines 51-53: forecast_accuracy.get("sales_pct_error", 0) of every post-mortem
GlobalErrors(post_mortems) ==
    [i \in DOMAIN post_mortems |->
        IF post_mortems[i].has_sales_pct_error THEN post_mortems[i].sales_pct_error
        ELSE RZero]

\* the errors one by_department dict files under a (department, channel) key
RECURSIVE EntryErrors(_, _)
EntryErrors(by_dept, entries) ==
    IF entries = {} THEN << >>
    ELSE Let(CHOOSE x \in entries : TRUE, LAMBDA x :
             <<by_dept[x[1]][x[2]]>> \o EntryErrors(by_dept, entries \ {x}))

\* lines 55-59: per_key_errors[dept][ch] after the loop over the post-mortems
RECURSIVE PerKeyErrors(_, _, _)
PerKeyErrors(post_mortems, dept, ch) ==
    IF post_mortems = << >> THEN << >>
    ELSE Let(Head(post_mortems).by_department, LAMBDA by_dept :
             EntryErrors(by_dept,
                         UNION {{<<d, c>> : c \in {c \in DOMAIN by_dept[d] : Lower(c) = ch}}
                                : d \in {d \in DOMAIN by_dept : Upper(d) = dept}}))
         \o PerKeyErrors(Tail(post_mortems), dept, ch)

\* lines 70-76: the new coefficient of one entry of the current table
NewCoefficient(coefficients, post_mortems, dept, ch) ==
    Let(PerKeyErrors(post_mortems, dept, ch), LAMBDA errors :
        Clamp(RMul(coefficients[dept][ch],
                   IF errors # << >>
                   THEN AdjustFactor(MeanError(errors))
                   ELSE AdjustFactor(MeanError(GlobalErrors(post_mortems))))))

\* LearningEngine.update_uplift_model called on day today
update_uplift_model(current_model, post_mortems, today) ==
    IF post_mortems = << >> THEN current_model
    ELSE [kind |-> "UpliftModel",
          coefficients |->
              [dept \in DOMAIN current_model.coefficients |->
                  [ch \in DOMAIN current_model.coefficients[dept] |->
                      NewCoefficient(current_model.coefficients, post_mortems, dept, ch)]],
          version |-> current_model.version \o "-adj",
          last_updated |-> today]

NoByDepartment == [d \in {} |-> [c \in {} |-> RZero]]

PostMortem(sales_pct_error, by_department) ==
    [has_sales_pct_error |-> TRUE, sales_pct_error |-> sales_pct_error,
     by_department |-> by_department]

\* a post-mortem whose forecast_accuracy has no sales_pct_error
PostMortemWithout(by_department) ==
    [has_sales_pct_error |-> FALSE, sales_pct_error |-> RZero,
     by_department |-> by_department]

ByDepartment(dept, ch, err) == [d \in {dept} |-> [c \in {ch} |-> err]]

PostMortemLists ==
    {<< >>,
     <<PostMortem(Rat(1, 10), NoByDepartment)>>,
     <<PostMortemWithout(ByDepartment("tv", "Online", Rat(-1, 2)))>>,
     <<PostMortem(Rat(1, 10), NoByDepartment),
       PostMortem(Rat(1, 2), ByDepartment("TV", "online", Rat(1, 10)))>>}

----------------------------------------------------------------------------
(* Model objects on the heap.  calls.heap is the sequence of the           *)
(* UpliftModel objects created so far, a reference is an index into it;    *)
(* calls.writer is the call of build_uplift_model or update_uplift_model   *)
(* in progress, which fills its table one assignment at a time; probe is a *)
(* reader that holds a reference.                                          *)

\* the models created in a behaviour
MaxModels == 2

\* the (department, channel) keys of a table
Keys(table) == UNION {{<<d, c>> : c \in DOMAIN table[d]} : d \in DOMAIN table}

\* table[k[1]][k[2]] = val on a nested dict
Put(table, k, val) ==
    [d \in DOMAIN table \cup {k[1]} |->
        IF d # k[1] THEN table[d]
        ELSE IF d \in DOMAIN table
             THEN [c \in DOMAIN table[d] \cup {k[2]} |->
                      IF c = k[2] THEN val ELSE table[d][c]]
             ELSE [c \in {k[2]} |-> val]]

PublishSources ==
    {FailingSource}
      \cup {StoredSource(rows) : rows \in {d \in BuildDatasets : Len(d) \in {3, 4}}}

InitPublish ==
    /\ cached_model = "None"
    /\ last = NoCall
    /\ probe = NoProbe
    /\ calls = [heap |-> << >>, writer |-> Idle]

\* build_uplift_model starts: line 114, coefficients = {}
BeginBuild ==
    /\ calls.writer.pc = "idle"
    /\ Len(calls.heap) < MaxModels
    /\ \E source \in PublishSources :
         calls' = [calls EXCEPT !.writer =
                      [pc |-> "build", table |-> NoCoefficients,
                       final |-> build_uplift_model(TRUE, source, MaxDay).coefficients]]
    /\ UNCHANGED <<cached_model, last, probe>>

\* lines 131-161 and 172-175: one assignment into the local table
FillBuild ==
    /\ calls.writer.pc = "build"
    /\ Keys(calls.writer.final) \ Keys(calls.writer.table) # {}
    /\ LET k == CHOOSE k \in Keys(calls.writer.final) \ Keys(calls.writer.table) : TRUE
       IN  calls' = [calls EXCEPT !.writer.table = Put(@, k, calls.writer.final[k[1]][k[2]])]
    /\ UNCHANGED <<cached_model, last, probe>>

\* lines 177-181: the model object is created from the filled table; the caller
\* stores the reference in the engine (line 65, or line 70 of the evaluation
\* engine) or keeps it to itself
ReturnBuild ==
    /\ calls.writer.pc = "build"
    /\ Keys(calls.writer.final) \ Keys(calls.writer.table) = {}
    /\ calls' = [heap |-> Append(calls.heap,
                                 [kind |-> "UpliftModel", coefficients |-> calls.writer.table,
                                  version |-> "1.0", last_updated |-> MaxDay]),
                 writer |-> Idle]
    /\ \/ cached_model' = cached_model
       \/ cached_model' = Len(calls.heap) + 1
    /\ last' = [op |-> "build_uplift_model", result |-> Len(calls.heap) + 1]
    /\ UNCHANGED probe

\* lines 43-44 and 67: update_uplift_model starts on a model; without
\* post-mortems it returns the model it was given
BeginUpdate ==
    /\ calls.writer.pc = "idle"
    /\ Len(calls.heap) < MaxModels
    /\ \E current \in DOMAIN calls.heap, post_mortems \in PostMortemLists :
         IF post_mortems = << >>
         THEN /\ last' = [op |-> "update_uplift_model", result |-> current]
              /\ UNCHANGED calls
         ELSE /\ calls' = [calls EXCEPT !.writer =
                             [pc |-> "update", table |-> NoCoefficients,
                              current |-> current, post_mortems |-> post_mortems]]
              /\ UNCHANGED last
    /\ UNCHANGED <<cached_model, probe>>

\* the assignment of line 76 made to the table of the current model
UpdateStep_inplace(writer, heap, k) ==
    Let(NewCoefficient(heap[writer.current].coefficients, writer.post_mortems, k[1], k[2]),
        LAMBDA val :
        [writer |-> [writer EXCEPT !.table = Put(@, k, val)],
         heap |-> [heap EXCEPT ![writer.current].coefficients = Put(@, k, val)]])

\* lines 68-76: one assignment new_coeffs[dept][ch] = ...
UpdateStep(writer, heap, k) ==
    Let(NewCoefficient(heap[writer.current].coefficients, writer.post_mortems, k[1], k[2]),
        LAMBDA val :
        [writer |-> [writer EXCEPT !.table = Put(@, k, val)],
         heap |-> heap])

FillUpdate ==
    /\ calls.writer.pc = "update"
    /\ Keys(calls.heap[calls.writer.current].coefficients) \ Keys(calls.writer.table) # {}
    /\ LET k == CHOOSE k \in Keys(calls.heap[calls.writer.current].coefficients)
                                \ Keys(calls.writer.table) : TRUE
       IN  calls' = UpdateStep(calls.writer, calls.heap, k)
    /\ UNCHANGED <<cached_model, last, probe>>

\* lines 78-82: the new model object is created from new_coeffs
ReturnUpdate ==
    /\ calls.writer.pc = "update"
    /\ Keys(calls.heap[calls.writer.current].coefficients) \ Keys(calls.writer.table) = {}
    /\ calls' = [heap |-> Append(calls.heap,
                                 [kind |-> "UpliftModel", coefficients |-> calls.writer.table,
                                  version |-> calls.heap[calls.writer.current].version \o "-adj",
                                  last_updated |-> MaxDay]),
                 writer |-> Idle]
    /\ \/ cached_model' = cached_model
       \/ cached_model' = Len(calls.heap) + 1
    /\ last' = [op |-> "update_uplift_model", result |-> Len(calls.heap) + 1]
    /\ UNCHANGED probe

\* a reader takes a reference to a model: the engine's cached one (line 68)
\* or one it was handed
Acquire ==
    /\ ~probe.set
    /\ \E ref \in DOMAIN calls.heap :
         probe' = [set |-> TRUE, ref |-> ref, snapshot |-> calls.heap[ref].coefficients]
    /\ UNCHANGED <<cached_model, last, calls>>

NextPublish ==
    \/ BeginBuild \/ FillBuild \/ ReturnBuild
    \/ BeginUpdate \/ FillUpdate \/ ReturnUpdate
    \/ Acquire

SpecPublish == InitPublish /\ [][NextPublish]_vars

\* a table with an entry for every default category and channel
Complete(table) ==
    \A cat \in {"TV", "GAMING", "AUDIO"} :
        cat \in DOMAIN table /\ {"online", "store"} \subseteq DOMAIN table[cat]

\* C15: a model is never mutated in place: while build_uplift_model or the
\* learning update fills its table, a reader holding a reference to a model reads
\* the coefficients it read when it took the reference, and they are complete
C15_ModelsNeverMutated ==
    probe.set =>
        /\ calls.heap[probe.ref].coefficients = probe.snapshot
        /\ Complete(calls.heap[probe.ref].coefficients)

\* a reader holds the model that a learning update in progress started from,
\* and the update has made some but not all of its assignments
C15_Witness ==
    /\ probe.set
    /\ calls.writer.pc = "update"
    /\ calls.writer.current = probe.ref
    /\ calls.writer.table # NoCoefficients
    /\ Keys(calls.heap[probe.ref].coefficients) \ Keys(calls.writer.table) # {}
    /\ calls.heap[probe.ref].coefficients = probe.snapshot

----------------------------------------------------------------------------
(* validate_scenario on an engine without a config tool.                   *)

\* C16: without a constraints and brand-rules source the checks are made against
\* defaults and none is skipped: checks_passed has the entries discount_limits
\* (against 25), margin_thresholds (when a KPI is supplied) and brand_compliance
C16_DefaultsNotSkipped ==
    (/\ last.op = "validate_scenario"
     /\ last.args.config_tool.is_none
     /\ ~IsError(last.result))
        => /\ "discount_limits" \in DOMAIN last.result.checks_passed
           /\ last.result.checks_passed["discount_limits"]
                 = (last.args.scenario.discount_percentage <= 25)
           /\ ~last.args.kpi.is_none
                 => "margin_thresholds" \in DOMAIN last.result.checks_passed
           /\ "brand_compliance" \in DOMAIN last.result.checks_passed

\* the part of C16 that the defaults of lines 144 and 158 provide
DefaultLimitsApplied ==
    (/\ last.op = "validate_scenario"
     /\ last.args.config_tool.is_none
     /\ ~IsError(last.result))
        => /\ "discount_limits" \in DOMAIN last.result.checks_passed
           /\ last.result.checks_passed["discount_limits"]
                 = (last.args.scenario.discount_percentage <= 25)
           /\ ~last.args.kpi.is_none
                 => "margin_thresholds" \in DOMAIN last.result.checks_passed

----------------------------------------------------------------------------
(* estimate_uplift as a function of the coefficient and of the discount.   *)

\* the coefficient the call of the state looked up
CallCoefficient ==
    BaseCoefficient(cached_model, Upper(last.args.category), Lower(last.args.channel))

\* the coefficient a model holds for the category and channel of the call
CoefficientIn(m) ==
    BaseCoefficient(m, Upper(last.args.category), Lower(last.args.channel))

\* the steps of discount of the second difference
DiscountSteps == {Rat(1, 10), Rat(1, 5), Rat(1, 2)}

\* the estimate does not decrease from the call's model to a model m with at
\* least its coefficient, for the discount and context of the call
NonDecreasingTo(m) ==
    RLe(CallCoefficient, CoefficientIn(m))
        => RLe(last.result,
               estimate_uplift(m, last.args.category, last.args.channel,
                               last.args.discount, last.args.context))

\* the second difference of the un-banded formula at the call's discount with
\* step h, for the call's coefficient
SecondDifference(h) ==
    RSub(RSub(UnbandedUplift(RAdd(last.args.discount, h), CallCoefficient),
              UnbandedUplift(last.args.discount, CallCoefficient)),
         RSub(UnbandedUplift(last.args.discount, CallCoefficient),
              UnbandedUplift(RSub(last.args.discount, h), CallCoefficient)))

\* the step h stays inside [0,1] around the call's discount
StepInRange(h) ==
    /\ RLe(h, last.args.discount)
    /\ RLe(RAdd(last.args.discount, h), ROne)

----------------------------------------------------------------------------
(* calculate_gap_vs_targets over baselines and target dicts in which any   *)
(* target may be absent or 0.                                              *)

GapBaselines ==
    {[total_sales |-> Rat(s, 1), total_margin |-> Rat(m, 1), total_units |-> Rat(u, 1)] :
        s \in {0, 1000}, m \in {0, 300}, u \in {0, 10}}

\* a target dict is described by the presence and the value of each target
GapArgs ==
    [baseline : GapBaselines,
     has_sales : BOOLEAN, sales_target : {RZero, Rat(1100, 1)},
     has_margin : BOOLEAN, margin_target : {RZero, Rat(24, 100)},
     has_units : BOOLEAN, units_target : {RZero, Rat(22, 1)}]

\* the dict passed to the call: targets.get gives None for an absent key
TargetsDict(a) ==
    [sales_target |-> IF a.has_sales THEN a.sales_target ELSE "None",
     margin_target |-> IF a.has_margin THEN a.margin_target ELSE "None",
     units_target |-> IF a.has_units THEN a.units_target ELSE "None"]

InitGap ==
    /\ cached_model = "None"
    /\ last \in Pending(GapArgs)
    /\ probe = NoProbe
    /\ calls = << >>

\* ForecastBaselineEngine.calculate_gap_vs_targets, a whole call
CalculateGap ==
    /\ last.op = "pending"
    /\ last' = [op |-> "calculate_gap_vs_targets", args |-> last.args,
                result |-> calculate_gap_vs_targets(last.args.baseline,
                                                    TargetsDict(last.args))]
    /\ UNCHANGED <<cached_model, probe, calls>>

NextGap == CalculateGap

SpecGap == InitGap /\ [][NextGap]_vars

\* total_margin / total_sales, or 0 when total_sales is 0
MarginRatio(baseline) ==
    IF baseline.total_sales = RZero THEN RZero
    ELSE RDiv(baseline.total_margin, baseline.total_sales)

\* C18: each gap is the baseline's value minus its target (the margin value being
\* total_margin / total_sales, or 0 when total_sales is 0); the gap of an absent
\* target is 0 and a target that is present with value 0 is subtracted
C18_GapsVsTargets ==
    last.op = "calculate_gap_vs_targets" =>
        /\ DOMAIN last.result = {"sales_gap", "margin_gap", "units_gap"}
        /\ last.result.sales_gap
              = IF last.args.has_sales
                THEN RSub(last.args.baseline.total_sales, last.args.sales_target)
                ELSE RZero
        /\ last.result.units_gap
              = IF last.args.has_units
                THEN RSub(last.args.baseline.total_units, last.args.units_target)
                ELSE RZero
        /\ last.result.margin_gap
              = IF last.args.has_margin
                THEN RSub(MarginRatio(last.args.baseline), last.args.margin_target)
                ELSE RZero

\* the sales target absent on a baseline without sales, the margin target
\* present, and a units target of 0 subtracted from units that are not 0
C18_Witness ==
    /\ last.op = "calculate_gap_vs_targets"
    /\ ~last.args.has_sales
    /\ last.args.baseline.total_sales = RZero
    /\ last.result.sales_gap = RZero
    /\ last.args.has_margin /\ last.args.margin_target # RZero
    /\ last.result.margin_gap = RNeg(last.args.margin_target)
    /\ last.args.has_units /\ last.args.units_target = RZero
    /\ last.result.units_gap = last.args.baseline.total_units
    /\ last.result.units_gap # RZero

----------------------------------------------------------------------------
(* The coefficients of a built model against the daily rows of the window. *)

\* the daily rows of the lookback window that the aggregation groups
WindowRows(source, today) ==
    filter_dataframe(source.rows,
                     [start_date |-> today - LookbackDays, end_date |-> today],
                     NoFilters).rows

\* the daily rows of a department, channel and promo flag
DailyPairRows(rows, dept, channel, flag) ==
    SelectSeq(rows, LAMBDA r : /\ Upper(r.department) = dept
                               /\ Lower(r.channel) = channel
                               /\ r.promo_flag = flag)

\* the coefficient computed from the means over the promo and non-promo days
CoefficientFromMeans(rows, dept, channel) ==
    Let2(DailyPairRows(rows, dept, channel, "True"),
         DailyPairRows(rows, dept, channel, "False"),
         LAMBDA promo, non_promo :
        IF promo = << >> \/ non_promo = << >> THEN DefaultElasticity
        ELSE Let2(SeqMean(promo, "sales_value"), SeqMean(non_promo, "sales_value"),
                  LAMBDA promo_mean, nonpromo_mean :
             Let(SeqMean(promo, "discount_pct"), LAMBDA mean_discount :
                IF RLt(RZero, mean_discount) /\ nonpromo_mean # RZero
                THEN Clamp(RDiv(RDiv(RSub(promo_mean, nonpromo_mean), nonpromo_mean),
                                mean_discount))
                ELSE DefaultElasticity)))

\* C19: every coefficient of a built model is ((promo_mean - nonpromo_mean) /
\* nonpromo_mean) / mean_discount clamped to [0.5, 3.0] when the pair has promo and
\* non-promo rows and a mean promo discount above 0, and 1.5 otherwise; so every
\* coefficient lies in [0.5, 3.0]
C19_CoefficientsFromMeans ==
    (/\ last.op = "build_uplift_model"
     /\ last.args.has_tool
     /\ ~IsError(last.args.source))
        => \A dept \in DOMAIN last.result.coefficients :
             \A channel \in DOMAIN last.result.coefficients[dept] :
                /\ last.result.coefficients[dept][channel]
                      = CoefficientFromMeans(WindowRows(last.args.source, last.args.today),
                                             dept, channel)
                /\ RLe(Rat(1, 2), last.result.coefficients[dept][channel])
                /\ RLe(last.result.coefficients[dept][channel], Rat(3, 1))

\* every coefficient of every built model lies in [0.5, 3.0]
CoefficientsInRange ==
    last.op = "build_uplift_model"
        => \A dept \in DOMAIN last.result.coefficients :
             \A channel \in DOMAIN last.result.coefficients[dept] :
                /\ RLe(Rat(1, 2), last.result.coefficients[dept][channel])
                /\ RLe(last.result.coefficients[dept][channel], Rat(3, 1))

----------------------------------------------------------------------------
(* The projections of calculate_baseline against the history.              *)

\* the history frame of a call: the rows passed in, or the daily rows fetched
\* for the requested range
HistoryOf(args) ==
    IF ~args.historical_data.is_none THEN args.historical_data.rows
    ELSE get_daily_sales(args.stored, args.date_range, "None", "None").rows

\* the rows of a history that fall on weekday w
OnWeekday(hist, w) == SelectSeq(hist, LAMBDA r : Weekday(r.date) = w)

\* the historical mean of a field for the weekday of day d, or the overall mean
\* when the weekday does not occur in the history
ExpectedMean(hist, d, field) ==
    IF OnWeekday(hist, Weekday(d)) # << >>
    THEN SeqMean(OnWeekday(hist, Weekday(d)), field)
    ELSE SeqMean(hist, field)

\* the sum of the means of the sales of the weekdays w..6
RECURSIVE SumWeekdayMeans(_, _)
SumWeekdayMeans(hist, w) ==
    IF w > 6 THEN RZero
    ELSE RAdd(SeqMean(OnWeekday(hist, w), "sales_value"), SumWeekdayMeans(hist, w + 1))

\* C20: a returned forecast has exactly one projection for each day from start_date
\* to end_date; the projection is the historical mean over the rows of the day's
\* weekday, or the overall mean when the weekday is not in the history; over a
\* 7-day range with all weekdays observed total_sales is the sum of the seven
\* weekday means, whatever the first weekday
C20_WeekdayMeans ==
    (last.op = "calculate_baseline" /\ ~IsError(last.result)) =>
        LET p == last.result.daily_projections
            hist == HistoryOf(last.args)
            range == last.args.date_range
        IN  /\ DOMAIN p = range.start_date..range.end_date
            /\ \A d \in DOMAIN p :
                  /\ p[d].sales = ExpectedMean(hist, d, "sales_value")
                  /\ p[d].margin = ExpectedMean(hist, d, "margin_value")
                  /\ p[d].units = ExpectedMean(hist, d, "units")
            /\ (/\ range.end_date = range.start_date + 6
                /\ \A w \in 0..6 : OnWeekday(hist, w) # << >>)
                  => last.result.total_sales = SumWeekdayMeans(hist, 0)

\* a 7-day range starting on a Wednesday over the history with weekday means
\* 80k, 85k, 90k, 95k, 110k, 120k and 70k: total_sales is 650,000
C20_Witness ==
    /\ last.op = "calculate_baseline"
    /\ ~IsError(last.result)
    /\ ~last.args.historical_data.is_none
    /\ last.args.date_range = [start_date |-> 2, end_date |-> 8]
    /\ \A w \in 0..6 : OnWeekday(last.args.historical_data.rows, w) # << >>
    /\ last.result.daily_projections[7].sales = Rat(80000, 1)
    /\ last.result.total_sales = Rat(650000, 1)

----------------------------------------------------------------------------
(* The dampening band of estimate_uplift.                                  *)

\* the value estimate_uplift returns for the call of the state when the base
\* uplift is multiplied by the factor f before the context adjustment
ResultWithFactor(f) ==
    RMax(RZero, ContextAdjust(RMul(UnbandedUplift(last.args.discount, CallCoefficient), f),
                              last.args.context))

\* C21: estimate_uplift applies exactly one dampening band to the base uplift:
\* 0.8 when the discount is > 0.3, 0.9 when 0.2 < discount <= 0.3 and none when
\* discount <= 0.2; the boundary values 0.2 and 0.3 belong to the lower band
C21_OneBand ==
    last.op = "estimate_uplift" =>
        /\ RLt(Rat(3, 10), last.args.discount) => last.result = ResultWithFactor(Rat(8, 10))
        /\ (RLt(Rat(2, 10), last.args.discount) /\ RLe(last.args.discount, Rat(3, 10)))
               => last.result = ResultWithFactor(Rat(9, 10))
        /\ RLe(last.args.discount, Rat(2, 10)) => last.result = ResultWithFactor(ROne)

\* a call above 0.3 whose result is the 0.8 value and differs from the value with
\* both factors applied
C21_Witness ==
    /\ last.op = "estimate_uplift"
    /\ RLt(Rat(3, 10), last.args.discount)
    /\ last.args.context.is_none
    /\ RLt(RZero, last.result)
    /\ last.result = ResultWithFactor(Rat(8, 10))
    /\ last.result # ResultWithFactor(Rat(72, 100))

----------------------------------------------------------------------------
(* evaluate_scenario over scenarios with no discount and deep discounts,   *)
(* empty and repeated departments and channels, and baselines with days of *)
(* zero and of negative sales.                                             *)

KPIDiscounts == <<0, 20, 25, 30, 35, 100>>

KPIScenarios ==
    {MkScenario("sK", r[1], r[2], depts, chans, KPIDiscounts[i]) :
        r \in {<<0, MaxDay>>, <<1, MaxDay + 1>>, <<1, 0>>},
        depts \in {<<"TV">>, <<"TV", "TV">>, <<"tv", "AUDIO">>, << >>},
        chans \in {<<"online">>, <<"online", "store">>, <<"store", "store">>, << >>},
        i \in DOMAIN KPIDiscounts}

KPIBaselines ==
    EvalBaselines
        \cup {MkBaseline([d \in 0..MaxDay |-> Proj(10, 6 - d, 4)]),
              MkBaseline([d \in 0..MaxDay |-> IF d = 0 THEN Proj(-5, 1, 2) ELSE Proj(8, 2, 2)])}

KPIArgs ==
    [scenario : KPIScenarios, baseline : KPIBaselines,
     uplift_model : {"mLow", "mHigh", "mNeg"}, context : {NoContext, Ctx("factor", Rat(1, 2), 1)}]

InitKPI ==
    /\ cached_model \in {"None", "mHigh"}
    /\ last \in Pending(KPIArgs)
    /\ probe = NoProbe
    /\ calls = << >>

\* ScenarioEvaluationEngine.evaluate_scenario, a whole call
EvaluateKPI ==
    /\ last.op = "pending"
    /\ last' = [op |-> "evaluate_scenario", args |-> last.args,
                result |-> evaluate_scenario(cached_model, last.args.scenario,
                                             last.args.baseline, last.args.uplift_model,
                                             last.args.context)]
    /\ cached_model' = CacheAfterEvaluate(cached_model, last.args.scenario,
                                          last.args.uplift_model)
    /\ UNCHANGED <<probe, calls>>

NextKPI == EvaluateKPI

SpecKPI == InitKPI /\ [][NextKPI]_vars

\* the days of the scenario that the baseline covers
CoveredDays(scenario, baseline) ==
    {d \in DOMAIN baseline.daily_projections :
        /\ scenario.date_range.start_date <= d
        /\ d <= scenario.date_range.end_date}

\* the sum of a field of the baseline over the covered days of the scenario
CoveredBaseline(scenario, baseline, field) ==
    SumField(baseline.daily_projections, CoveredDays(scenario, baseline), field)

\* the elements of a list
Elements(list) == {list[i] : i \in DOMAIN list}

\* the uplifts of the (department, channel) pairs of the evaluated scenario
PairUplifts ==
    {estimate_uplift(last.args.uplift_model, dept, channel,
                     Rat(last.args.scenario.discount_percentage, 100), last.args.context) :
        dept \in Elements(last.args.scenario.departments),
        channel \in Elements(last.args.scenario.channels)}

\* the scenario has a day, and the baseline has positive sales on each of its days
DaysWithSales ==
    /\ last.args.scenario.date_range.start_date <= last.args.scenario.date_range.end_date
    /\ \A d \in last.args.scenario.date_range.start_date
                  .. last.args.scenario.date_range.end_date :
          /\ d \in DOMAIN last.args.baseline.daily_projections
          /\ RLt(RZero, last.args.baseline.daily_projections[d].sales)

\* C22: evaluate_scenario allocates each covered day's baseline equally over the
\* department x channel pairs: when all pairs have the same uplift u the sales
\* are the baseline's sales * (1 + u) and the units the baseline's units *
\* (1 + 0.8 u); with discount 0 total_sales and total_units are the baseline's
\* sums over the scenario's days; over days with positive baseline sales
\* total_sales > 0
C22_EqualAllocation ==
    last.op = "evaluate_scenario" =>
        /\ \A u \in PairUplifts :
              PairUplifts = {u} =>
                /\ last.result.total_sales
                      = RMul(CoveredBaseline(last.args.scenario, last.args.baseline, "sales"),
                             RAdd(ROne, u))
                /\ last.result.total_units
                      = RMul(CoveredBaseline(last.args.scenario, last.args.baseline, "units"),
                             RAdd(ROne, RMul(Rat(8, 10), u)))
        /\ last.args.scenario.discount_percentage = 0 =>
                /\ last.result.total_sales
                      = CoveredBaseline(last.args.scenario, last.args.baseline, "sales")
                /\ last.result.total_units
                      = CoveredBaseline(last.args.scenario, last.args.baseline, "units")
        /\ DaysWithSales => RLt(RZero, last.result.total_sales)

\* the statement of C22 for the scenarios with a department and a channel
AllocationWithPairs ==
    (/\ last.op = "evaluate_scenario"
     /\ last.args.scenario.departments # << >>
     /\ last.args.scenario.channels # << >>) => C22_EqualAllocation

----------------------------------------------------------------------------
(* The breakdowns of a ScenarioKPI.                                        *)

\* the sum of a field over the entries of a breakdown dict
RECURSIVE SumEntries(_, _, _)
SumEntries(bd, keys, field) ==
    IF keys = {} THEN RZero
    ELSE Let(CHOOSE k \in keys : TRUE,
             LAMBDA k : RAdd(bd[k][field], SumEntries(bd, keys \ {k}, field)))

\* the entries of a breakdown dict sum to the totals of the KPI
SumsToTotals(kpi, bd) ==
    /\ SumEntries(bd, DOMAIN bd, "sales") = kpi.total_sales
    /\ SumEntries(bd, DOMAIN bd, "margin") = kpi.total_margin
    /\ SumEntries(bd, DOMAIN bd, "units") = kpi.total_units
    /\ SumEntries(bd, DOMAIN bd, "ebit") = kpi.total_ebit

\* every entry's ebit is its margin - 0.1 * its sales
EntryEbit(bd) ==
    \A k \in DOMAIN bd : bd[k].ebit = RSub(bd[k].margin, RMul(Rat(1, 10), bd[k].sales))

\* C23: in every ScenarioKPI returned by evaluate_scenario the entries of
\* breakdown_by_channel and of breakdown_by_department each sum to total_sales,
\* total_margin, total_units and total_ebit, also when a department or channel
\* is listed more than once; total_ebit = total_margin - 0.1 * total_sales and
\* each entry's ebit = its margin - 0.1 * its sales
C23_BreakdownsSumToTotals ==
    last.op = "evaluate_scenario" =>
        /\ SumsToTotals(last.result, last.result.breakdown_by_channel)
        /\ SumsToTotals(last.result, last.result.breakdown_by_department)
        /\ last.result.total_ebit
              = RSub(last.result.total_margin, RMul(Rat(1, 10), last.result.total_sales))
        /\ EntryEbit(last.result.breakdown_by_channel)
        /\ EntryEbit(last.result.breakdown_by_department)

\* an evaluation over two days of a scenario that lists one department twice
\* and two channels: one department entry, two channel entries, non-zero totals
C23_Witness ==
    /\ last.op = "evaluate_scenario"
    /\ last.args.scenario.departments = <<"TV", "TV">>
    /\ last.args.scenario.channels = <<"online", "store">>
    /\ last.args.scenario.date_range = [start_date |-> 0, end_date |-> MaxDay]
    /\ DOMAIN last.result.breakdown_by_department = {"TV"}
    /\ DOMAIN last.result.breakdown_by_channel = {"online", "store"}
    /\ RLt(RZero, last.result.total_margin)
    /\ last.result.breakdown_by_channel["online"].sales
          # last.result.breakdown_by_channel["store"].sales
    /\ SumsToTotals(last.result, last.result.breakdown_by_department)

----------------------------------------------------------------------------
(* The margin of a ScenarioKPI.                                            *)

\* the days of the evaluated scenario, in order
ScenarioDays ==
    [x \in 1..(IF last.args.scenario.date_range.start_date
                    > last.args.scenario.date_range.end_date
                THEN 0
                ELSE last.args.scenario.date_range.end_date
                        - last.args.scenario.date_range.start_date + 1) |->
        last.args.scenario.date_range.start_date + x - 1]

\* the sales the evaluated scenario has on day d, over all its pairs
DaySalesOverPairs(d) ==
    Let2(Len(last.args.scenario.departments), Len(last.args.scenario.channels),
         LAMBDA nd, nc :
    SumSeq([k \in 1..(nd * nc) |->
        RMul(RMul(DayBaseline(last.args.baseline, d).sales, Rat(1, nd * nc)),
             RAdd(ROne,
                  estimate_uplift(last.args.uplift_model,
                                  last.args.scenario.departments[((k - 1) \div nc) + 1],
                                  last.args.scenario.channels[((k - 1) % nc) + 1],
                                  Rat(last.args.scenario.discount_percentage, 100),
                                  last.args.context)))]))

\* the baseline margin ratio of day d with 0.2 taken when the sales are 0
RatioWhenZero(d) ==
    Let(DayBaseline(last.args.baseline, d), LAMBDA b :
        IF b.sales = RZero THEN Rat(2, 10) ELSE RDiv(b.margin, b.sales))

\* the baseline margin ratio of day d with 0.2 taken when the sales are not above 0
RatioWhenNotPositive(d) ==
    Let(DayBaseline(last.args.baseline, d), LAMBDA b :
        IF RLt(RZero, b.sales) THEN RDiv(b.margin, b.sales) ELSE Rat(2, 10))

\* the baseline has no day of negative sales
NonNegativeSales ==
    \A d \in DOMAIN last.args.baseline.daily_projections :
        RLe(RZero, last.args.baseline.daily_projections[d].sales)

\* the discount fraction of the evaluated scenario
DiscountFraction == Rat(last.args.scenario.discount_percentage, 100)

\* C24 as stated: each day's margin is day_sales * max(0, baseline_margin /
\* baseline_sales - discount_fraction) with 0.2 as the ratio when the day's
\* baseline sales is 0; for a baseline with non-negative daily sales total_margin
\* is never negative, and is 0 when the discount is at least every day's ratio
C24_MarginRatioWhenZero ==
    last.op = "evaluate_scenario" =>
        /\ last.result.total_margin
              = SumSeq([x \in DOMAIN ScenarioDays |->
                    RMul(DaySalesOverPairs(ScenarioDays[x]),
                         RMax(RZero, RSub(RatioWhenZero(ScenarioDays[x]), DiscountFraction)))])
        /\ NonNegativeSales =>
              /\ RLe(RZero, last.result.total_margin)
              /\ (\A x \in DOMAIN ScenarioDays :
                      RLe(RatioWhenZero(ScenarioDays[x]), DiscountFraction))
                    => last.result.total_margin = RZero

\* C24 (amended): each day's margin is day_sales * max(0, baseline_margin /
\* baseline_sales - discount_fraction) with 0.2 as the ratio when the day's
\* baseline sales is not greater than 0; for a baseline with non-negative daily
\* sales total_margin is never negative, and is 0 when the discount is at least
\* every day's ratio
C24_MarginRatioWhenNotPositive ==
    last.op = "evaluate_scenario" =>
        /\ last.result.total_margin
              = SumSeq([x \in DOMAIN ScenarioDays |->
                    RMul(DaySalesOverPairs(ScenarioDays[x]),
                         RMax(RZero,
                              RSub(RatioWhenNotPositive(ScenarioDays[x]), DiscountFraction)))])
        /\ NonNegativeSales =>
              /\ RLe(RZero, last.result.total_margin)
              /\ (\A x \in DOMAIN ScenarioDays :
                      RLe(RatioWhenNotPositive(ScenarioDays[x]), DiscountFraction))
                    => last.result.total_margin = RZero

\* an evaluation over a day of negative baseline sales at a discount below 0.2:
\* the 0.2 ratio applies to that day, and the total is not the one obtained with
\* the ratio margin / sales of that day
C24_Witness ==
    /\ last.op = "evaluate_scenario"
    /\ ~NonNegativeSales
    /\ last.args.scenario.date_range.start_date = 0
    /\ last.args.scenario.discount_percentage = 0
    /\ last.args.scenario.departments # << >>
    /\ last.args.scenario.channels # << >>
    /\ RatioWhenNotPositive(0) = Rat(2, 10)
    /\ last.result.total_margin
          # SumSeq([x \in DOMAIN ScenarioDays |->
                RMul(DaySalesOverPairs(ScenarioDays[x]),
                     RMax(RZero, RSub(RatioWhenZero(ScenarioDays[x]), DiscountFraction)))])
    /\ last.result.total_margin = Rat(1, 1)

----------------------------------------------------------------------------
(* The margin threshold check of validate_scenario.                        *)

\* constraints.min_margin of the engine of the call, 0.18 without a config tool
CallMinMargin ==
    IF last.args.config_tool.is_none THEN Rat(18, 100)
    ELSE last.args.config_tool.constraints.min_margin

\* the checks that need a KPI
KPIChecks == {"margin_thresholds", "sales_plausibility", "margin_plausibility"}

\* C25: with a KPI, checks_passed["margin_thresholds"] is True exactly when
\* kpi.total_sales is not 0 and total_margin / total_sales >= min_margin; a KPI
\* with total_sales = 0 fails the check and makes the report invalid; without
\* a KPI the report has no margin_thresholds, sales_plausibility or
\* margin_plausibility entry
C25_MarginThreshold ==
    (last.op = "validate_scenario" /\ ~IsError(last.result)) =>
        /\ ~last.args.kpi.is_none =>
              /\ "margin_thresholds" \in DOMAIN last.result.checks_passed
              /\ last.result.checks_passed["margin_thresholds"]
                    = (/\ last.args.kpi.total_sales # RZero
                       /\ RLe(CallMinMargin,
                              RDiv(last.args.kpi.total_margin, last.args.kpi.total_sales)))
              /\ last.args.kpi.total_sales = RZero =>
                    /\ ~last.result.checks_passed["margin_thresholds"]
                    /\ ~last.result.is_valid
        /\ last.args.kpi.is_none =>
              KPIChecks \cap DOMAIN last.result.checks_passed = {}

\* a KPI with total_sales = 0 on an otherwise valid scenario: the margin check
\* is the one failed check and the report is invalid
C25_Witness ==
    /\ last.op = "validate_scenario"
    /\ ~IsError(last.result)
    /\ ~last.args.kpi.is_none
    /\ last.args.kpi.total_sales = RZero
    /\ FailedChecks(last.result) = {"margin_thresholds"}
    /\ Len(last.result.issues) = 1
    /\ ~last.result.is_valid

----------------------------------------------------------------------------
(* The coefficient lookup of estimate_uplift.                              *)

\* the names that differ in letter case only
CaseClasses ==
    {{"TV", "tv", "Tv"}, {"AUDIO", "audio", "Audio"}, {"GAMING", "gaming", "Gaming"},
     {"ONLINE", "online", "Online"}, {"STORE", "store", "Store"}}

\* the letter-case variants of a name
CaseVariants(name) == UNION {c \in CaseClasses : name \in c}

\* the model holds a coefficient for some spelling of the department and channel
ModelContains(m, category, channel) ==
    \E c \in CaseVariants(category) \cap DOMAIN Coefficients(m) :
        CaseVariants(channel) \cap DOMAIN Coefficients(m)[c] # {}

\* the uplift for the discount and context of the call at elasticity 1.5
DefaultElasticityUplift ==
    RMax(RZero,
         ContextAdjust(RMul(RMul(RMul(last.args.discount, Rat(15, 10)),
                                 RSub(ROne, RMul(last.args.discount, Rat(3, 10)))),
                            BandFactor(last.args.discount)),
                       last.args.context))

\* C26: for a fixed model, discount and context estimate_uplift returns the same
\* value for every letter-case variant of the department and channel names,
\* and it uses elasticity 1.5 for a pair that the model does not contain
C26_CaseInsensitiveLookup ==
    last.op = "estimate_uplift" =>
        /\ \A c \in CaseVariants(last.args.category), ch \in CaseVariants(last.args.channel) :
              estimate_uplift(cached_model, c, ch, last.args.discount, last.args.context)
                  = last.result
        /\ ~ModelContains(cached_model, last.args.category, last.args.channel)
              => last.result = DefaultElasticityUplift

\* a call with department "tv" and channel "Online" on the model with TV/online
\* at 3.0: the value of "TV"/"online", not the value at elasticity 1.5
C26_Witness ==
    /\ last.op = "estimate_uplift"
    /\ last.args.category = "tv"
    /\ last.args.channel = "Online"
    /\ cached_model = "mHigh"
    /\ last.args.context.is_none
    /\ RLt(RZero, last.result)
    /\ last.result = estimate_uplift("mHigh", "TV", "online", last.args.discount,
                                     last.args.context)
    /\ last.result # DefaultElasticityUplift

----------------------------------------------------------------------------
(* ScenarioOptimizationEngine.generate_candidate_scenarios.  constraints   *)
(* is a dict: a function from the keys it holds; a candidate's             *)
(* discount_percentage is a float, kept as a rational.                     *)

\* str(uuid.uuid4()): the identifier of the n-th scenario a call creates
FreshId(n) == <<"u1", "u2", "u3", "u4", "u5", "u6", "u7">>[n]

\* constraints.get(key, default) if constraints else default
ConstraintOf(constraints, key, default) ==
    IF key \in DOMAIN constraints THEN constraints[key] ELSE default

\* lines 66-71: the date range of the candidates
CandidateDateRange(constraints, today) ==
    Let(ConstraintOf(constraints, "date_range", << >>), LAMBDA date_range :
    Let(ConstraintOf(date_range, "start_date", today + 1), LAMBDA start_date :
        [start_date |-> start_date,
         end_date |-> ConstraintOf(date_range, "end_date", start_date + 29)]))

\* a PromoScenario of lines 79-88, 93-102, 107-116 and 123-132
Candidate(n, name, date_range, departments, channels, discount) ==
    [id |-> FreshId(n), name |-> name, date_range |-> date_range,
     departments |-> departments, channels |-> channels,
     discount_percentage |-> discount]

\* lines 76-117: the three templates
Templates(date_range, departments, channels, max_discount) ==
    <<Candidate(1, "Conservative", date_range,
                IF Len(departments) >= 2 THEN SubSeq(departments, 1, 2) ELSE departments,
                channels, RMin(Rat(10, 1), RMul(max_discount, Rat(4, 10)))),
      Candidate(2, "Balanced", date_range, departments, channels,
                RMin(Rat(15, 1), RMul(max_discount, Rat(6, 10)))),
      Candidate(3, "Aggressive", date_range, departments, channels,
                RMin(RMul(max_discount, Rat(9, 10)), max_discount))>>

\* [s.discount_percentage for s in scenarios]
DiscountsOf(scenarios) == {scenarios[i].discount_percentage : i \in DOMAIN scenarios}

\* lines 121-133 without the test for a discount already in the list
GridStep_repeat(scenarios, discount, date_range, departments, channels, max_discount) ==
    IF RLe(discount, max_discount)
    THEN Append(scenarios,
                Candidate(Len(scenarios) + 1, "Grid", date_range, departments, channels,
                          discount))
    ELSE scenarios

\* lines 121-133: one execution of the grid loop body
GridStep(scenarios, discount, date_range, departments, channels, max_discount) ==
    IF RLe(discount, max_discount) /\ discount \notin DiscountsOf(scenarios)
    THEN Append(scenarios,
                Candidate(Len(scenarios) + 1, "Grid", date_range, departments, channels,
                          discount))
    ELSE scenarios

\* line 120
DiscountSteps_grid(max_discount) == <<Rat(5, 1), Rat(12, 1), Rat(18, 1), max_discount>>

\* lines 121-133: the grid loop from its k-th step
RECURSIVE GridLoop(_, _, _, _, _, _)
GridLoop(scenarios, k, date_range, departments, channels, max_discount) ==
    IF k > Len(DiscountSteps_grid(max_discount)) THEN scenarios
    ELSE Bind(GridStep(scenarios, DiscountSteps_grid(max_discount)[k], date_range,
                       departments, channels, max_discount),
              LAMBDA s : GridLoop(s, k + 1, date_range, departments, channels, max_discount))

\* ScenarioOptimizationEngine.generate_candidate_scenarios
generate_candidate_scenarios(constraints, today) ==
    Let2(ConstraintOf(constraints, "max_discount", Rat(25, 1)),
         CandidateDateRange(constraints, today),
         LAMBDA max_discount, date_range :
    Let2(ConstraintOf(constraints, "departments", <<"TV", "Gaming", "Audio">>),
         ConstraintOf(constraints, "channels", <<"online", "store">>),
         LAMBDA departments, channels :
        GridLoop(Templates(date_range, departments, channels, max_discount), 1,
                 date_range, departments, channels, max_discount)))

\* a dict with one key, or without it
Optional(key, values) == {<< >>} \cup {(key :> v) : v \in values}

GenerateMaxDiscounts ==
    {Rat(-5, 1), Rat(0, 1), Rat(5, 1), Rat(10, 1), Rat(25, 2), Rat(20, 1), Rat(25, 1),
     Rat(30, 1), Rat(50, 1)}

GenerateConstraints ==
    {md @@ dr @@ dp @@ ch :
        md \in Optional("max_discount", GenerateMaxDiscounts),
        dr \in Optional("date_range",
                        {<< >>, [start_date |-> 0], [start_date |-> 0, end_date |-> MaxDay]}),
        dp \in Optional("departments", {<< >>, <<"TV">>, <<"TV", "Gaming", "Audio">>}),
        ch \in Optional("channels", {<<"online">>})}

GenerateArgs == [constraints : GenerateConstraints, today : 0..MaxDay]

InitGenerate ==
    /\ cached_model = "None"
    /\ last \in Pending(GenerateArgs)
    /\ probe = NoProbe
    /\ calls = << >>

\* ScenarioOptimizationEngine.generate_candidate_scenarios, a whole call
GenerateCandidates ==
    /\ last.op = "pending"
    /\ last' = [op |-> "generate_candidate_scenarios", args |-> last.args,
                result |-> generate_candidate_scenarios(last.args.constraints,
                                                        last.args.today)]
    /\ UNCHANGED <<cached_model, probe, calls>>

NextGenerate == GenerateCandidates

SpecGenerate == InitGenerate /\ [][NextGenerate]_vars

\* max_discount of the call: the value of the constraints, 25 without one
CallMaxDiscount ==
    IF "max_discount" \in DOMAIN last.args.constraints
    THEN last.args.constraints["max_discount"]
    ELSE Rat(25, 1)

\* C27: for every max_discount >= 0 generate_candidate_scenarios returns the
\* Conservative, Balanced and Aggressive templates followed by grid scenarios
\* with discounts from {5, 12, 18, max_discount}; every candidate's discount is
\* between 0 and max_discount, no grid candidate has the discount of a candidate
\* before it, and all candidates have the same date range and channel list
C27_CandidatesWithinLimit ==
    (last.op = "generate_candidate_scenarios" /\ RLe(RZero, CallMaxDiscount)) =>
        /\ Len(last.result) >= 3
        /\ <<last.result[1].name, last.result[2].name, last.result[3].name>>
              = <<"Conservative", "Balanced", "Aggressive">>
        /\ \A i \in DOMAIN last.result :
              /\ RLe(RZero, last.result[i].discount_percentage)
              /\ RLe(last.result[i].discount_percentage, CallMaxDiscount)
              /\ last.result[i].date_range = last.result[1].date_range
              /\ last.result[i].channels = last.result[1].channels
              /\ i > 3 =>
                    /\ last.result[i].name = "Grid"
                    /\ last.result[i].discount_percentage
                          \in {Rat(5, 1), Rat(12, 1), Rat(18, 1), CallMaxDiscount}
                    /\ \A j \in 1..(i - 1) :
                          last.result[j].discount_percentage
                              # last.result[i].discount_percentage

\* max_discount = 12.5: Conservative takes 5, so the grid adds 12 and 12.5 only
C27_Witness ==
    /\ last.op = "generate_candidate_scenarios"
    /\ CallMaxDiscount = Rat(25, 2)
    /\ Len(last.result) = 5
    /\ last.result[1].discount_percentage = Rat(5, 1)
    /\ last.result[4].discount_percentage = Rat(12, 1)
    /\ last.result[5].discount_percentage = Rat(25, 2)

----------------------------------------------------------------------------
(* estimate_uplift and total_sales as functions of the discount.           *)

\* the discounts, in percent, that the calls around the 0.2 band limit use
BandLimitPercents == {20, 21}

----------------------------------------------------------------------------
(* The optimize/generate route (api/routes/optimization.py).  The baseline,*)
(* the uplift model and the context are what calculate_baseline,           *)
(* build_uplift_model and build_context return for the candidates' date    *)
(* range; the payloads are those whose candidates have whole percentages.  *)

\* payload.get(key, default)
PayloadOf(payload, key, default) == IF key \in DOMAIN payload THEN payload[key] ELSE default

\* a candidate with its discount_percentage as the whole number of percent
WholePercent(scenario) ==
    [scenario EXCEPT !.discount_percentage = @[1]]

\* line 58: the candidates of the brief, cut to max(num_scenarios, 1)
RouteCandidates(payload, today) ==
    Let2(generate_candidate_scenarios(PayloadOf(payload, "constraints", << >>), today),
         PayloadOf(payload, "num_scenarios", 3),
         LAMBDA generated, num_scenarios :
            [k \in 1..(IF Len(generated) < num_scenarios THEN Len(generated)
                        ELSE IF num_scenarios < 1 THEN 1 ELSE num_scenarios) |->
                WholePercent(generated[k])])

\* lines 61-82: the result entry of the scenario ranked rank among n
RouteResult(scenario, rank, n, baseline, uplift_model, context) ==
    [scenario |-> scenario,
     kpi |-> evaluate_scenario(uplift_model, scenario, baseline, uplift_model, context),
     rank |-> rank,
     score |-> Rat(rank, n)]

\* lines 84-92: the frontier point of a result entry
FrontierPoint(item) ==
    [sales |-> item.kpi.total_sales,
     margin |-> IF item.kpi.total_sales # RZero
                THEN RMul(RDiv(item.kpi.total_margin, item.kpi.total_sales), Rat(100, 1))
                ELSE RZero,
     ebit |-> item.kpi.total_ebit,
     scenario_id |-> item.scenario.id]

\* lines 94-97: the response built from the result entries
RouteResponse(results) ==
    Let([k \in DOMAIN results |-> FrontierPoint(results[k])], LAMBDA frontier_points :
        [kind |-> "response",
         scenarios |-> results,
         efficient_frontier |->
            [points |-> frontier_points,
             pareto_optimal |-> [k \in DOMAIN frontier_points |->
                                    frontier_points[k].scenario_id]]])

\* the route optimize_scenarios, lines 42-99
optimize_route(payload, today, baseline, uplift_model, context) ==
    Let(optimize_scenarios(RouteCandidates(payload, today),
                           PayloadOf(payload, "objectives", NoObjectives)),
        LAMBDA optimized :
            IF IsError(baseline) THEN ErrorResult("HTTPException")
            ELSE RouteResponse([k \in DOMAIN optimized |->
                                    RouteResult(optimized[k], k, Len(optimized), baseline,
                                                uplift_model, context)]))

RoutePayloads ==
    {(("constraints" :> (c @@ dp)) @@ n @@ o) :
        c \in {[max_discount |-> Rat(m, 1),
                date_range |-> [start_date |-> r[1], end_date |-> r[2]]] :
                    m \in {0, 10, 20, 30}, r \in {<<0, MaxDay>>, <<1, MaxDay + 1>>}},
        dp \in Optional("departments", {<<"TV">>}),
        n \in Optional("num_scenarios", {0, 2, 7}),
        o \in Optional("objectives", {Objectives(RZero, ROne)})}

\* the daily values are multiples of the denominators of the uplifts, which keeps
\* the rationals of the KPIs small
RouteBaselines ==
    {MkBaseline([d \in 0..MaxDay |-> Proj(24000000, 7200000, 24000000)]),
     MkBaseline([d \in 0..MaxDay |-> Proj(24000000 * (d + 1), 2400000 * (d + 1), 24000000)]),
     ErrorResult("ValueError")}

RouteArgs ==
    [payload : RoutePayloads, today : {0}, baseline : RouteBaselines,
     uplift_model : {"built", "mHigh"},
     context : {Ctx("none", ROne, 0), Ctx("factor", Rat(2, 1), 0)}]

InitRoute ==
    /\ cached_model \in {"None", "built"}
    /\ last \in Pending(RouteArgs)
    /\ probe = NoProbe
    /\ calls = << >>

\* the route optimize_scenarios, a whole request
OptimizeRoute ==
    /\ last.op = "pending"
    /\ last' = [op |-> "optimize_route", args |-> last.args,
                result |-> optimize_route(last.args.payload, last.args.today,
                                          last.args.baseline, last.args.uplift_model,
                                          last.args.context)]
    /\ cached_model' = IF IsError(last.args.baseline) THEN cached_model
                       ELSE last.args.uplift_model
    /\ UNCHANGED <<probe, calls>>

NextRoute == OptimizeRoute

SpecRoute == InitRoute /\ [][NextRoute]_vars

\* point q dominates point p on the (sales, margin) coordinates
PointDominates(q, p) ==
    /\ RLe(p.sales, q.sales)
    /\ RLe(p.margin, q.margin)
    /\ RLt(p.sales, q.sales) \/ RLt(p.margin, q.margin)

\* C29: in the response of optimize/generate, efficient_frontier.pareto_optimal
\* lists the id of a scenario exactly when no other returned scenario dominates
\* it on the frontier points' (sales, margin) coordinates
C29_ParetoListsNonDominated ==
    (last.op = "optimize_route" /\ ~IsError(last.result)) =>
        LET points == last.result.efficient_frontier.points
            listed == Elements(last.result.efficient_frontier.pareto_optimal)
        IN  \A i \in DOMAIN points :
                points[i].scenario_id \in listed
                    <=> ~\E j \in DOMAIN points : j # i /\ PointDominates(points[j], points[i])

\* C30: in the response of optimize/generate the returned scenarios are in
\* descending order of their reported score: rank 1 has the highest score, and a
\* scenario with a larger rank never has a higher score than one with a smaller
C30_ScoresDescendWithRank ==
    (last.op = "optimize_route" /\ ~IsError(last.result)) =>
        \A i, j \in DOMAIN last.result.scenarios :
            last.result.scenarios[i].rank < last.result.scenarios[j].rank
                => RLe(last.result.scenarios[j].score, last.result.scenarios[i].score)

====
